---------------------------- MODULE Spec2Model ----------------------------
(***************************************************************************)
(* Model of the creo-monitor discovery + collection pipeline:              *)
(*   - the Registry (cgroup::Monitor, a sharded concurrent map),           *)
(*   - the tick loop of run() with its blocking sampling pass,             *)
(*   - the stats worker and the metadata worker,                           *)
(*   - the three Discoverer jobs (registration worker, event               *)
(*     subscription, initial enumeration) and their bounded queues.        *)
(* Every action is one stretch of code between two suspension points       *)
(* (.await) of a task; the sampling pass is split at shard boundaries,     *)
(* because DashMap::retain takes one shard's write lock at a time.         *)
(***************************************************************************)
EXTENDS Integers, Sequences, FiniteSets, TLC

(***************************************************************************)
(* Bounds of the model.                                                    *)
(***************************************************************************)
MaxEvents == 2        \* events the runtime delivers before the stream idles
MaxTicks == 2         \* ticks of the periodic timer
NumShards == 2        \* shards of the DashMap (machine dependent)
MaxEventsBP == 16     \* events in the queue-saturation scenario
MaxTicksBP == 11      \* ticks in the queue-saturation scenario
MaxListed == 2        \* containers the runtime lists in one namespace

(***************************************************************************)
(* Program constants.                                                      *)
(***************************************************************************)
ContainerQueueCap == 10
StatsQueueCap == 10
MetadataQueueCap == 15
IdLen == 64

(***************************************************************************)
(* Strings are sequences of byte codes.                                    *)
(***************************************************************************)
Rep(n, b) == [i \in 1..n |-> b]

IdA == Rep(IdLen, 97)          \* "aaaa...a"  (64 x 'a')
IdB == Rep(IdLen, 98)          \* "bbbb...b"  (64 x 'b')
BadUpper == Rep(IdLen, 65)     \* 64 x 'A': upper case

NoVal == [some |-> FALSE]

Some(v) == [some |-> TRUE, val |-> v]

\* mutant: upper-case letters pass as well
is_alpha_numeric(src) ==
    \A i \in 1..Len(src) :
        (src[i] >= 48 /\ src[i] <= 57) \/ (src[i] >= 97 /\ src[i] <= 122) \/ (src[i] >= 65 /\ src[i] <= 90)

\* u8::is_ascii_digit() || u8::is_ascii_lowercase()
is_lowercase_alpha_numeric(src) ==
    \A i \in 1..Len(src) : (src[i] >= 48 /\ src[i] <= 57) \/ (src[i] >= 97 /\ src[i] <= 122)

\* Some(array) iff the iterator yields exactly N elements
create_array_from_iter(s, N) == IF Len(s) = N THEN Some(s) ELSE NoVal

\* ContainerID::new ; NoVal stands for Err(InvalidContainerID)
ContainerID_new(src) == IF is_lowercase_alpha_numeric(src) THEN Some(src) ELSE NoVal

\* <ContainerID as FromStr>::from_str ; NoVal stands for Err(InvalidContainerID)
ContainerID_from_str(s) ==
    LET bytes == create_array_from_iter(s, IdLen)
    IN  IF bytes.some THEN ContainerID_new(bytes.val) ELSE NoVal

(***************************************************************************)
(* The Registry: DashMap<ContainerID, MonitoredContainer>.  It is a        *)
(* function from the ids present to their monitored container.  An id is   *)
(* hashed to one shard; retain() visits the shards one after another.      *)
(***************************************************************************)
ShardOf(id) == (id[1] % NumShards) + 1

Slots == {"cpu.stat", "cpu.max", "memory.stat", "memory.current", "memory.max", "io.stat", "net/dev"}

Restrict(f, S) == [x \in S |-> f[x]]

\* DashMap::insert
MapInsert(m, k, v) == [x \in (DOMAIN m) \cup {k} |-> IF x = k THEN v ELSE m[x]]

\* DashMap::remove
MapRemove(m, k) == Restrict(m, (DOMAIN m) \ {k})

VARIABLES
    parse,        \* one parser call: [parser, input, done, out]
    col,          \* one Collector seen from inside: its handles, the files behind them, its last result
    run,          \* run(): [pc (start-up step, "loop" or "exit"), res (what run() returned)]
    env,          \* what the outside world can deliver (fixed per behaviour)
    alive,        \* pids whose cgroup directory and /proc/<pid> still exist
    stream,       \* the event stream: "none", "open", "closed" (by the runtime) or "failed"
    containers,   \* Monitor.containers
    containerQ,   \* channel of Discoverer::start, capacity 10
    metadataQ,    \* channel metadata_tx/metadata_rx of run(), capacity 15
    statsQ,       \* channel tx/rx of run(), capacity 10
    tick,         \* tick loop: [pc, no (ticks so far = clock reading), out]
    passes,       \* running spawn_blocking sampling passes
    statsW,       \* stats worker: [pc, batch, res (what the last persist_stats returned)]
    persistCalls, \* history: ticks whose batch was handed to persist_stats
    db,           \* rows committed to container_stats
    metaW,        \* metadata worker: [pc, item]
    metaDb,       \* container_metadata: labels committed per container id
    ev,           \* events_task: [pc, n (events received), id, pid, labels, result, last (event logged),
                  \* got (response of the container fetch), emitted (metadata of this event sent)]
    en,           \* existing_containers_task
    reg,          \* add_container_task: [pc, last (outcome logged for the last message),
                  \* file (what the last message's cgroup file held, if recorded)]
    hist          \* history: [dirty, missed], see Dirty and Missed

vars == <<parse, col, run, env, alive, stream, containers, containerQ, metadataQ, statsQ,
          tick, passes, statsW, persistCalls, db, metaW, metaDb, ev, en, reg, hist>>

(***************************************************************************)
(* Collector (cgroup/collector.rs).  A collector is identified by the pid  *)
(* whose files it opened and by the set of slots that could be opened.     *)
(***************************************************************************)
\* CollectorBuilder::set_*_file + build: a slot is present iff its file opens
CollectorBuild(pid, openable) == [pid |-> pid, slots |-> openable]

\* Collector::refresh_stats: Err as soon as one present slot cannot be read;
\* the handles of a removed cgroup / dead process fail on read.
refresh_stats(c, live) ==
    IF c.slots # {} /\ c.pid \notin live
    THEN [ok |-> FALSE]
    ELSE [ok |-> TRUE, stats |-> [pid |-> c.pid, slots |-> c.slots]]

\* MonitoredContainer::new
MonitoredContainer_new(id, pids, collector) ==
    [container_id |-> id, pids |-> pids, collector |-> collector]

\* ContainerStatsEntry::new
ContainerStatsEntry_new(ts, id, stats) ==
    [timestamp |-> ts, container_id |-> id, stats |-> stats]

\* the orders in which a shard's table may yield the ids S
Orders(S) ==
    {o \in [1..Cardinality(S) -> S] : \A i, j \in 1..Cardinality(S) : o[i] = o[j] => i = j}

RECURSIVE RetainOut(_, _, _, _)
\* the entries retain()'s closure pushes for the ids of `order`, in order
RetainOut(order, m, ts, live) ==
    IF order = <<>> THEN <<>>
    ELSE LET id == Head(order)
             r == refresh_stats(m[id].collector, live)
         IN  (IF r.ok THEN <<ContainerStatsEntry_new(ts, id, r.stats)>> ELSE <<>>)
             \o RetainOut(Tail(order), m, ts, live)

\* mutant: the closure returns true also when refresh_stats failed
RetainKeptAll(S, m, live) == S

\* the ids of S whose closure returns true
RetainKept(S, m, live) == {id \in S : refresh_stats(m[id].collector, live).ok}

\* mutant: insert only if the id is absent
register_if_absent(m, id, c) == IF id \in DOMAIN m THEN m ELSE MapInsert(m, id, c)

\* Monitor::register_container
register_container(m, id, c) == MapInsert(m, id, c)

\* Monitor::remove_container
remove_container(m, id) == MapRemove(m, id)

\* Monitor::size
size(m) == Cardinality(DOMAIN m)

(***************************************************************************)
(* The tick loop of run() and the blocking sampling pass.                  *)
(***************************************************************************)
\* mutant: the pass is spawned and not awaited
TickNoAwait ==
    /\ tick.pc = "tick"
    /\ tick.no < env.maxTicks
    /\ LET ts == tick.no + 1
       IN  /\ passes' = passes \cup {[ts |-> ts, k |-> 1, out |-> <<>>, logged |-> {}]}
           /\ tick' = [pc |-> "tick", no |-> ts, out |-> <<>>]
    /\ hist' = [hist EXCEPT !.dirty = FALSE]
    /\ UNCHANGED <<parse, col, run, env, alive, stream, containers, containerQ, metadataQ, statsQ,
                   statsW, persistCalls, db, metaW, metaDb, ev, en, reg>>

\* interval.tick().await; timestamp; spawn_blocking(...).await
Tick ==
    /\ tick.pc = "tick"
    /\ tick.no < env.maxTicks
    /\ LET ts == tick.no + 1
       IN  /\ passes' = passes \cup {[ts |-> ts, k |-> 1, out |-> <<>>, logged |-> {}]}
           /\ tick' = [pc |-> "await", no |-> ts, out |-> <<>>]
    /\ hist' = [hist EXCEPT !.dirty = FALSE]
    /\ UNCHANGED <<parse, col, run, env, alive, stream, containers, containerQ, metadataQ, statsQ,
                   statsW, persistCalls, db, metaW, metaDb, ev, en, reg>>

\* mutant: the survivors are gathered in a new table that replaces the old
\* one when the last shard is done
PassShardSwap(p) ==
    /\ p \in passes
    /\ p.k <= NumShards
    /\ LET S == {id \in DOMAIN containers : ShardOf(id) = p.k}
           kept == RetainKept(S, containers, alive)
       IN  \E order \in Orders(S) :
              LET out == p.out \o RetainOut(order, containers, p.ts, alive)
              IN  /\ containers' =
                        IF p.k < NumShards
                        THEN Restrict(containers, (DOMAIN containers) \ (S \ kept))
                        ELSE Restrict(containers, {out[i].container_id : i \in 1..Len(out)})
                  /\ passes' = (passes \ {p}) \cup
                        {[p EXCEPT !.k = p.k + 1, !.out = out,
                                   !.logged = p.logged \cup (S \ kept)]}
    /\ UNCHANGED <<parse, col, run, env, alive, stream, containerQ, metadataQ, statsQ, tick,
                   statsW, persistCalls, db, metaW, metaDb, ev, en, reg, hist>>

\* mutant: the pass starts over from the first shard at every shard it
\* takes on, as an iteration without the shard locks would after a change
PassShardRescan(p) ==
    /\ p \in passes
    /\ p.k <= NumShards
    /\ LET S == {id \in DOMAIN containers : ShardOf(id) <= p.k}
           kept == RetainKept(S, containers, alive)
       IN  \E order \in Orders(S) :
              /\ containers' = Restrict(containers, (DOMAIN containers) \ (S \ kept))
              /\ passes' = (passes \ {p}) \cup
                     {[p EXCEPT !.k = p.k + 1,
                                !.out = p.out \o RetainOut(order, containers, p.ts, alive),
                                !.logged = p.logged \cup (S \ kept)]}
    /\ UNCHANGED <<parse, col, run, env, alive, stream, containerQ, metadataQ, statsQ, tick,
                   statsW, persistCalls, db, metaW, metaDb, ev, en, reg, hist>>

\* Monitor::collect_stats: retain() on shard p.k, under that shard's lock
PassShard(p) ==
    /\ p \in passes
    /\ p.k <= NumShards
    /\ LET S == {id \in DOMAIN containers : ShardOf(id) = p.k}
           kept == RetainKept(S, containers, alive)
       IN  \E order \in Orders(S) :
              /\ containers' = Restrict(containers, (DOMAIN containers) \ (S \ kept))
              /\ passes' = (passes \ {p}) \cup
                     {[p EXCEPT !.k = p.k + 1,
                                !.out = p.out \o RetainOut(order, containers, p.ts, alive),
                                !.logged = p.logged \cup (S \ kept)]}
    /\ UNCHANGED <<parse, col, run, env, alive, stream, containerQ, metadataQ, statsQ, tick,
                   statsW, persistCalls, db, metaW, metaDb, ev, en, reg, hist>>

\* mutant: try_send instead of send: a batch that finds the channel full is dropped
TickJoinDrop(p) ==
    /\ tick.pc = "await"
    /\ p \in passes
    /\ p.ts = tick.no
    /\ p.k > NumShards
    /\ passes' = passes \ {p}
    /\ statsQ' = IF Len(statsQ) < StatsQueueCap
                 THEN Append(statsQ, [tick |-> tick.no, entries |-> p.out])
                 ELSE statsQ
    /\ tick' = [tick EXCEPT !.pc = "tick", !.out = <<>>]
    /\ UNCHANGED <<parse, col, run, env, alive, stream, containers, containerQ, metadataQ,
                   statsW, persistCalls, db, metaW, metaDb, ev, en, reg, hist>>

\* the JoinHandle of the pass resolves: `.await.expect(..)` returns `out`;
\* tx.send(out).await completes at once if the channel has a free slot and
\* suspends the loop otherwise
TickJoin(p) ==
    /\ tick.pc = "await"
    /\ p \in passes
    /\ p.ts = tick.no
    /\ p.k > NumShards
    /\ passes' = passes \ {p}
    /\ IF Len(statsQ) < StatsQueueCap
       THEN /\ statsQ' = Append(statsQ, [tick |-> tick.no, entries |-> p.out])
            /\ tick' = [tick EXCEPT !.pc = "tick", !.out = <<>>]
       ELSE /\ statsQ' = statsQ
            /\ tick' = [tick EXCEPT !.pc = "send", !.out = p.out]
    /\ UNCHANGED <<parse, col, run, env, alive, stream, containers, containerQ, metadataQ,
                   statsW, persistCalls, db, metaW, metaDb, ev, en, reg, hist>>

\* the suspended tx.send(out).await resumes: the channel has a free slot
SendBatch ==
    /\ tick.pc = "send"
    /\ Len(statsQ) < StatsQueueCap
    /\ statsQ' = Append(statsQ, [tick |-> tick.no, entries |-> tick.out])
    /\ tick' = [tick EXCEPT !.pc = "tick", !.out = <<>>]
    /\ UNCHANGED <<parse, col, run, env, alive, stream, containers, containerQ, metadataQ, passes,
                   statsW, persistCalls, db, metaW, metaDb, ev, en, reg, hist>>

(***************************************************************************)
(* The stats worker and the metadata worker of run().                      *)
(***************************************************************************)
\* mutant: every batch is persisted by a task of its own, spawned on receipt
StatsRecvSpawn ==
    /\ statsQ # <<>>
    /\ statsW' = [statsW EXCEPT !.pc = "persist", !.batch = Head(statsQ)]
    /\ statsQ' = Tail(statsQ)
    /\ persistCalls' = Append(persistCalls, Head(statsQ).tick)
    /\ UNCHANGED <<parse, col, run, env, alive, stream, containers, containerQ, metadataQ, tick,
                   passes, db, metaW, metaDb, ev, en, reg, hist>>

\* rx.recv().await yields a batch; persist_stats(&stats) is called
StatsRecv ==
    /\ statsW.pc = "recv"
    /\ statsQ # <<>>
    /\ statsW' = [statsW EXCEPT !.pc = "persist", !.batch = Head(statsQ)]
    /\ statsQ' = Tail(statsQ)
    /\ persistCalls' = Append(persistCalls, Head(statsQ).tick)
    /\ UNCHANGED <<parse, col, run, env, alive, stream, containers, containerQ, metadataQ, tick,
                   passes, db, metaW, metaDb, ev, en, reg, hist>>

Range(s) == {s[i] : i \in 1..Len(s)}

\* where a call of persist_stats can fail: db.begin(), the i-th
\* query.execute(&mut *tx), or tx.commit()
NoFail == [at |-> "none", i |-> 0]

FailPoints(stats) ==
    {[at |-> "begin", i |-> 0], [at |-> "commit", i |-> 0]} \cup
    {[at |-> "insert", i |-> k] : k \in 1..Len(stats)}

\* mutant: the inserts run on the pool, each committed on its own
persist_stats_autocommit(store, stats, fail) ==
    IF fail.at = "begin" THEN [ok |-> FALSE, store |-> store]
    ELSE LET n == IF fail.at = "insert" THEN fail.i - 1 ELSE Len(stats)
             tx == {stats[k] : k \in 1..n}
         IN  [ok |-> fail.at = "none", store |-> store \cup tx]

\* persist_stats(stats) on the rows `store` of container_stats: the inserts
\* before the failure point run inside the transaction tx; an early return
\* by `?` drops tx, which rolls it back; only tx.commit() makes its rows
\* visible
persist_stats(store, stats, fail) ==
    IF fail.at = "begin" THEN [ok |-> FALSE, store |-> store]
    ELSE LET n == IF fail.at = "insert" THEN fail.i - 1 ELSE Len(stats)
             tx == {stats[k] : k \in 1..n}
         IN  IF fail.at \in {"insert", "commit"}
             THEN [ok |-> FALSE, store |-> store]
             ELSE [ok |-> TRUE, store |-> store \cup tx]

\* mutant: a batch whose write failed is put back at the head of the queue
StatsPersistRetry(ok) ==
    /\ statsW.pc = "persist"
    /\ \E fail \in IF ok THEN {NoFail} ELSE FailPoints(statsW.batch.entries) :
           LET r == persist_stats(db, statsW.batch.entries, fail)
           IN  /\ db' = r.store
               /\ statsW' = [pc |-> "recv", batch |-> NoVal,
                             res |-> IF r.ok THEN "Ok" ELSE "Err"]
               /\ statsQ' = IF r.ok \/ Len(statsQ) >= StatsQueueCap THEN statsQ
                            ELSE <<statsW.batch>> \o statsQ
    /\ UNCHANGED <<parse, col, run, env, alive, stream, containers, containerQ, metadataQ,
                   tick, passes, persistCalls, metaW, metaDb, ev, en, reg, hist>>

\* persist_stats returns to the stats worker: Ok, or an Err that is logged
StatsPersistDone(ok) ==
    /\ statsW.pc = "persist"
    /\ \E fail \in IF ok THEN {NoFail} ELSE FailPoints(statsW.batch.entries) :
           LET r == persist_stats(db, statsW.batch.entries, fail)
           IN  /\ db' = r.store
               /\ statsW' = [pc |-> "recv", batch |-> NoVal,
                             res |-> IF r.ok THEN "Ok" ELSE "Err"]
    /\ UNCHANGED <<parse, col, run, env, alive, stream, containers, containerQ, metadataQ, statsQ,
                   tick, passes, persistCalls, metaW, metaDb, ev, en, reg, hist>>

\* metadata_rx.recv().await yields an update; persist_metadata is called
MetaRecv ==
    /\ metaW.pc = "recv"
    /\ metadataQ # <<>>
    /\ metaW' = [pc |-> "persist", item |-> Head(metadataQ)]
    /\ metadataQ' = Tail(metadataQ)
    /\ UNCHANGED <<parse, col, run, env, alive, stream, containers, containerQ, statsQ, tick,
                   passes, statsW, persistCalls, db, metaDb, ev, en, reg, hist>>

\* INSERT .. ON DUPLICATE KEY UPDATE label_value for every (key, value) of labels
Upsert(t, id, labels) ==
    [x \in (DOMAIN t) \cup {<<id, k>> : k \in DOMAIN labels} |->
        IF x[1] = id /\ x[2] \in DOMAIN labels THEN labels[x[2]] ELSE t[x]]

\* mutant: `if let` in place of `while let`: the metadata worker handles one
\* update and ends
MetaPersistDoneOnce(ok) ==
    /\ metaW.pc = "persist"
    /\ metaDb' = IF ok THEN Upsert(metaDb, metaW.item.id, metaW.item.labels) ELSE metaDb
    /\ metaW' = [pc |-> "done", item |-> NoVal]
    /\ UNCHANGED <<parse, col, run, env, alive, stream, containers, containerQ, metadataQ, statsQ,
                   tick, passes, statsW, persistCalls, db, ev, en, reg, hist>>

\* persist_metadata returns: the transaction committed (ok) or failed (logged)
MetaPersistDone(ok) ==
    /\ metaW.pc = "persist"
    /\ metaDb' = IF ok THEN Upsert(metaDb, metaW.item.id, metaW.item.labels) ELSE metaDb
    /\ metaW' = [pc |-> "recv", item |-> NoVal]
    /\ UNCHANGED <<parse, col, run, env, alive, stream, containers, containerQ, metadataQ, statsQ,
                   tick, passes, statsW, persistCalls, db, ev, en, reg, hist>>

\* the event stream ends: the runtime closes it, or the transport fails
EnvStreamEnd(how) ==
    /\ stream = "open"
    /\ ev.pc # "done"
    /\ stream' = how
    /\ UNCHANGED <<parse, col, run, env, alive, containers, containerQ, metadataQ, statsQ, tick,
                   passes, statsW, persistCalls, db, metaW, metaDb, ev, en, reg, hist>>

\* the cgroup of pid is removed (the container's processes are gone)
EnvExit(pid) ==
    /\ pid \in alive
    /\ alive' = alive \ {pid}
    /\ UNCHANGED <<parse, col, run, env, stream, containers, containerQ, metadataQ, statsQ, tick,
                   passes, statsW, persistCalls, db, metaW, metaDb, ev, en, reg, hist>>

(***************************************************************************)
(* Discoverer, Job C: add_container_task (registration worker).            *)
(* A line of /proc/<pid>/cgroup is given by its fields between ':'.        *)
(***************************************************************************)
\* str::parse::<u32> on the strings that occur
ParseU32(s) ==
    CASE s = "0" -> Some(0)
      [] s = "1" -> Some(1)
      [] s = "12" -> Some(12)
      [] OTHER -> NoVal

\* str::split(",") on the strings that occur
SplitComma(s) ==
    CASE s = "" -> <<"">>
      [] s = "cpu,memory" -> <<"cpu", "memory">>
      [] OTHER -> <<s>>

\* parse_cgroup_line(line), line given as line.split(":")
parse_cgroup_line(it) ==
    IF Len(it) < 1 THEN [ok |-> FALSE, err |-> "InvalidFormat"]
    ELSE IF ~ParseU32(it[1]).some THEN [ok |-> FALSE, err |-> "InvalidHierarchyID"]
    ELSE IF Len(it) < 2 THEN [ok |-> FALSE, err |-> "InvalidFormat"]
    ELSE IF Len(it) < 3 THEN [ok |-> FALSE, err |-> "InvalidFormat"]
    ELSE IF Len(it) > 3 THEN [ok |-> FALSE, err |-> "TooManySeparators"]
    ELSE [ok |-> TRUE,
          hierarchy_id |-> ParseU32(it[1]).val,
          controller_list |-> IF it[2] = "" THEN <<>> ELSE SplitComma(it[2]),
          cgroup_path |-> it[3]]

\* mutant: the controller list of the line is not looked at
AddContainerAnyControllers(m, task, live, file, openable) ==
    IF task.pid \notin live THEN m
    ELSE IF file.kind = "unreadable" THEN m
    ELSE IF file.kind = "empty" THEN m
    ELSE LET cgl == parse_cgroup_line(file.fields)
         IN  IF ~cgl.ok THEN m
             ELSE IF cgl.hierarchy_id # 0 THEN m
             ELSE register_container(m, task.id,
                      MonitoredContainer_new(task.id, <<task.pid>>,
                                             CollectorBuild(task.pid, openable)))

\* the body of the `while let` loop of add_container_task for one message:
\* the Registry after it.  file: the content read from <rootfs>/proc/<pid>/cgroup
\* (kind "unreadable", "empty", or "line" with the fields of its first line).
AddContainer(m, task, live, file, openable) ==
    IF task.pid \notin live THEN m                     \* File::open fails
    ELSE IF file.kind = "unreadable" THEN m            \* read_line is Err
    ELSE IF file.kind = "empty" THEN m                 \* n == 0
    ELSE LET cgl == parse_cgroup_line(file.fields)
         IN  IF ~cgl.ok THEN m
             ELSE IF cgl.hierarchy_id # 0 THEN m
             ELSE IF cgl.controller_list # <<>> THEN m
             ELSE register_container(m, task.id,
                      MonitoredContainer_new(task.id, <<task.pid>>,
                                             CollectorBuild(task.pid, openable)))

\* whether that body reaches monitor.register_container
AddRegisters(task, live, file) ==
    /\ task.pid \in live
    /\ file.kind = "line"
    /\ parse_cgroup_line(file.fields).ok
    /\ parse_cgroup_line(file.fields).hierarchy_id = 0
    /\ parse_cgroup_line(file.fields).controller_list = <<>>

\* history: a write to the Registry while a sampling pass is running
Dirty(h, m1, m2) == h.dirty \/ (passes # {} /\ m1 # m2)

\* history: (id, tick) for an id registered while the running pass of that
\* tick had already visited the id's shard
Missed(h, id) ==
    h.missed \cup {<<id, p.ts>> : p \in {q \in passes : q.k > ShardOf(id)}}

\* rx.recv().await yields a ContainerTask, which is handled at once
RegHandle(file, openable) ==
    /\ reg.pc = "run"
    /\ containerQ # <<>>
    /\ containers' = AddContainer(containers, Head(containerQ), alive, file, openable)
    /\ containerQ' = Tail(containerQ)
    /\ reg' = [reg EXCEPT
                  !.last = IF "registration" \notin env.log THEN reg.last
                           ELSE IF AddRegisters(Head(containerQ), alive, file)
                           THEN "registered" ELSE "skipped",
                  !.file = IF "files" \in env.log THEN Some(file) ELSE reg.file]
    /\ hist' = [dirty |-> Dirty(hist, containers, containers'),
                missed |-> IF AddRegisters(Head(containerQ), alive, file)
                           THEN Missed(hist, Head(containerQ).id) ELSE hist.missed]
    /\ UNCHANGED <<parse, col, run, env, alive, stream, metadataQ, statsQ, tick, passes, statsW, persistCalls, db,
                   metaW, metaDb, ev, en>>

\* rx.recv().await yields None: every Sender is dropped and the queue is empty
RegExit ==
    /\ reg.pc = "run"
    /\ containerQ = <<>>
    /\ ev.pc = "done"
    /\ en.pc = "done"
    /\ reg' = [reg EXCEPT !.pc = "done"]
    /\ UNCHANGED <<parse, col, run, env, alive, stream, containers, containerQ, metadataQ, statsQ, tick, passes,
                   statsW, persistCalls, db, metaW, metaDb, ev, en, hist>>

(***************************************************************************)
(* Discoverer, Job B: events_task (event subscription).                    *)
(***************************************************************************)
TypeUrls ==
    {"containerd.events.ContainerUpdate", "containerd.events.TaskStart",
     "containerd.events.TaskDelete", "containerd.events.TaskExit"}

\* decode_event: the payload decodes unless its bytes are garbage
decode_event(event) ==
    IF event.type_url \notin {"containerd.events.ContainerUpdate",
                              "containerd.events.TaskStart",
                              "containerd.events.TaskDelete"}
    THEN [ok |-> FALSE, err |-> "UnknownEvent"]
    ELSE IF event.value.garbage THEN [ok |-> FALSE, err |-> "EventDecode"]
    ELSE [ok |-> TRUE,
          kind |-> CASE event.type_url = "containerd.events.ContainerUpdate" -> "ContainerUpdate"
                     [] event.type_url = "containerd.events.TaskStart" -> "TaskStart"
                     [] OTHER -> "TaskDelete",
          body |-> event.value]

EvIdle(e) ==
    [e EXCEPT !.pc = "recv", !.id = NoVal, !.pid = 0, !.labels = NoVal,
              !.got = NoVal, !.emitted = FALSE]

\* events_client.subscribe(..).await
EvSubscribe(ok) ==
    /\ ev.pc = "subscribe"
    /\ ev' = IF ok THEN [ev EXCEPT !.pc = "recv"]
                   ELSE [ev EXCEPT !.pc = "done", !.result = "Err(Subscribe)"]
    /\ stream' = IF ok THEN "open" ELSE "none"
    /\ UNCHANGED <<parse, col, run, env, alive, containers, containerQ, metadataQ, statsQ, tick, passes,
                   statsW, persistCalls, db, metaW, metaDb, en, reg, hist>>

\* mutant: a receive error ends the loop like the end of the stream
EvStreamErrorAsEnd ==
    /\ ev.pc = "recv"
    /\ stream = "failed"
    /\ ev' = [ev EXCEPT !.pc = "done", !.result = "Ok"]
    /\ UNCHANGED <<parse, col, run, env, alive, stream, containers, containerQ, metadataQ, statsQ, tick, passes,
                   statsW, persistCalls, db, metaW, metaDb, en, reg, hist>>

\* stream.message().await returns Err(status): `?` leaves the function
EvStreamError ==
    /\ ev.pc = "recv"
    /\ stream = "failed"
    /\ ev' = [ev EXCEPT !.pc = "done", !.result = "Err(EventMessage)"]
    /\ UNCHANGED <<parse, col, run, env, alive, stream, containers, containerQ, metadataQ, statsQ, tick, passes,
                   statsW, persistCalls, db, metaW, metaDb, en, reg, hist>>

\* stream.message().await returns Ok(None): the `while let` loop ends
EvStreamClosed ==
    /\ ev.pc = "recv"
    /\ stream = "closed"
    /\ ev' = [ev EXCEPT !.pc = "done", !.result = "Ok"]
    /\ UNCHANGED <<parse, col, run, env, alive, stream, containers, containerQ, metadataQ, statsQ, tick, passes,
                   statsW, persistCalls, db, metaW, metaDb, en, reg, hist>>

\* mutant: a payload that fails to decode ends the task with the error
EvAfterStrict(e, msg, room) ==
    IF ~msg.event.some THEN e
    ELSE LET d == decode_event(msg.event.val)
         IN  IF ~d.ok THEN [e EXCEPT !.pc = "done", !.result = "Err(EventDecode)"]
             ELSE LET id == ContainerID_from_str(d.body.id)
                  IN  CASE d.kind = "ContainerUpdate" ->
                             IF ~id.some THEN e
                             ELSE IF room THEN e
                             ELSE [e EXCEPT !.pc = "cu_send", !.id = id,
                                            !.labels = Some(d.body.labels)]
                        [] d.kind = "TaskStart" ->
                             IF ~id.some THEN e
                             ELSE IF ~msg.ns_ok
                             THEN [e EXCEPT !.pc = "done", !.result = "Panic"]
                             ELSE [e EXCEPT !.pc = "ts_get", !.id = id, !.pid = d.body.pid]
                        [] OTHER -> e

\* the events_task state after handling msg up to the next suspension point;
\* room: the metadata channel has a free slot
EvAfter(e, msg, room) ==
    IF ~msg.event.some THEN e
    ELSE LET d == decode_event(msg.event.val)
         IN  IF ~d.ok THEN e
             ELSE LET id == ContainerID_from_str(d.body.id)
                  IN  CASE d.kind = "ContainerUpdate" ->
                             IF ~id.some THEN e
                             ELSE IF room THEN e          \* the send completes at once
                             ELSE [e EXCEPT !.pc = "cu_send", !.id = id,
                                            !.labels = Some(d.body.labels)]
                        [] d.kind = "TaskStart" ->
                             IF ~id.some THEN e
                             ELSE IF ~msg.ns_ok
                             THEN [e EXCEPT !.pc = "done", !.result = "Panic"]
                             ELSE [e EXCEPT !.pc = "ts_get", !.id = id, !.pid = d.body.pid]
                        [] OTHER -> e

\* mutant: exec_id is not looked at
EvRegistryAfterAnyExec(m, msg) ==
    IF ~msg.event.some THEN m
    ELSE LET d == decode_event(msg.event.val)
         IN  IF ~d.ok THEN m
             ELSE IF d.kind = "TaskDelete"
             THEN LET id == ContainerID_from_str(d.body.id)
                  IN  IF id.some THEN remove_container(m, id.val) ELSE m
             ELSE m

\* the Registry after the synchronous part of handling msg
EvRegistryAfter(m, msg) ==
    IF ~msg.event.some THEN m
    ELSE LET d == decode_event(msg.event.val)
         IN  IF ~d.ok THEN m
             ELSE IF d.kind = "TaskDelete" /\ d.body.exec_id = ""
             THEN LET id == ContainerID_from_str(d.body.id)
                  IN  IF id.some THEN remove_container(m, id.val) ELSE m
             ELSE m

\* the metadata channel after handling msg: a ContainerUpdate with a
\* well-formed id sends (c_id, labels) if the channel has a free slot
EvMetadataAfter(q, msg) ==
    IF ~msg.event.some THEN q
    ELSE LET d == decode_event(msg.event.val)
         IN  IF ~d.ok THEN q
             ELSE LET id == ContainerID_from_str(d.body.id)
                  IN  IF d.kind = "ContainerUpdate" /\ id.some /\ Len(q) < MetadataQueueCap
                      THEN Append(q, [id |-> id.val, labels |-> d.body.labels])
                      ELSE q

\* what the task logs about msg: [kind, id, exec]
EvLog(msg) ==
    IF ~msg.event.some THEN [kind |-> "NoPayload", id |-> <<>>, exec |-> ""]
    ELSE LET d == decode_event(msg.event.val)
         IN  IF ~d.ok THEN [kind |-> d.err, id |-> <<>>, exec |-> ""]
             ELSE IF d.kind = "TaskDelete" /\ d.body.exec_id # ""
             THEN [kind |-> "TaskDelete", id |-> d.body.id, exec |-> d.body.exec_id]
             ELSE IF ~ContainerID_from_str(d.body.id).some
             THEN [kind |-> "InvalidContainerID", id |-> d.body.id, exec |-> ""]
             ELSE [kind |-> d.kind, id |-> d.body.id, exec |-> ""]

\* stream.message().await returns Ok(Some(msg)); msg is handled up to the
\* next suspension point
EvMessage(msg) ==
    /\ ev.pc = "recv"
    /\ stream = "open"
    /\ ev.n < env.maxEvents
    /\ ev' = EvAfter([ev EXCEPT !.n = ev.n + 1,
                                !.last = IF "events" \in env.log THEN EvLog(msg) ELSE ev.last],
                     msg, Len(metadataQ) < MetadataQueueCap)
    /\ containers' = EvRegistryAfter(containers, msg)
    /\ metadataQ' = EvMetadataAfter(metadataQ, msg)
    /\ hist' = [hist EXCEPT !.dirty = Dirty(hist, containers, containers')]
    /\ UNCHANGED <<parse, col, run, env, alive, stream, containerQ, statsQ, tick, passes,
                   statsW, persistCalls, db, metaW, metaDb, en, reg>>

\* ContainerUpdate: the suspended metadata_tx.send((c_id, labels)).await resumes
EvUpdateSend ==
    /\ ev.pc = "cu_send"
    /\ Len(metadataQ) < MetadataQueueCap
    /\ metadataQ' = Append(metadataQ, [id |-> ev.id.val, labels |-> ev.labels.val])
    /\ ev' = EvIdle(ev)
    /\ UNCHANGED <<parse, col, run, env, alive, stream, containers, containerQ, statsQ, tick, passes,
                   statsW, persistCalls, db, metaW, metaDb, en, reg, hist>>

\* mutant: the container-add is sent before the metadata update
EvGetContainerTaskFirst(resp) ==
    /\ ev.pc = "ts_get"
    /\ Len(containerQ) < ContainerQueueCap
    /\ containerQ' = Append(containerQ, [id |-> ev.id.val, pid |-> ev.pid])
    /\ metadataQ' = metadataQ
    /\ ev' = IF resp.kind = "container"
             THEN [ev EXCEPT !.pc = "ts_send_meta", !.labels = Some(resp.labels),
                             !.got = Some(resp)]
             ELSE EvIdle(ev)
    /\ UNCHANGED <<parse, col, run, env, alive, stream, containers, statsQ, tick, passes,
                   statsW, persistCalls, db, metaW, metaDb, en, reg, hist>>

\* TaskStart: container_client.get(request).await returns
\* resp.kind: "err", "none" (no container in the response) or "container";
\* the send that follows completes at once if its channel has a free slot
EvGetContainer(resp) ==
    /\ ev.pc = "ts_get"
    /\ IF resp.kind = "container"
       THEN /\ containerQ' = containerQ
            /\ IF Len(metadataQ) < MetadataQueueCap
               THEN /\ metadataQ' = Append(metadataQ, [id |-> ev.id.val, labels |-> resp.labels])
                    /\ ev' = [ev EXCEPT !.pc = "ts_send_task", !.got = Some(resp),
                                        !.emitted = TRUE]
               ELSE /\ metadataQ' = metadataQ
                    /\ ev' = [ev EXCEPT !.pc = "ts_send_meta", !.labels = Some(resp.labels),
                                        !.got = Some(resp)]
       ELSE /\ metadataQ' = metadataQ
            /\ IF Len(containerQ) < ContainerQueueCap
               THEN /\ containerQ' = Append(containerQ, [id |-> ev.id.val, pid |-> ev.pid])
                    /\ ev' = EvIdle(ev)
               ELSE /\ containerQ' = containerQ
                    /\ ev' = [ev EXCEPT !.pc = "ts_send_task", !.got = Some(resp)]
    /\ UNCHANGED <<parse, col, run, env, alive, stream, containers, statsQ, tick, passes,
                   statsW, persistCalls, db, metaW, metaDb, en, reg, hist>>

\* TaskStart: the suspended metadata_tx.send((id, container.labels)).await resumes
EvStartSendMeta ==
    /\ ev.pc = "ts_send_meta"
    /\ Len(metadataQ) < MetadataQueueCap
    /\ metadataQ' = Append(metadataQ, [id |-> ev.id.val, labels |-> ev.labels.val])
    /\ ev' = [ev EXCEPT !.pc = "ts_send_task", !.labels = NoVal, !.emitted = TRUE]
    /\ UNCHANGED <<parse, col, run, env, alive, stream, containers, containerQ, statsQ, tick, passes,
                   statsW, persistCalls, db, metaW, metaDb, en, reg, hist>>

\* mutant: the send completes whether or not the channel has a free slot
EvStartSendTaskNoWait ==
    /\ ev.pc = "ts_send_task"
    /\ containerQ' = Append(containerQ, [id |-> ev.id.val, pid |-> ev.pid])
    /\ ev' = EvIdle(ev)
    /\ UNCHANGED <<parse, col, run, env, alive, stream, containers, metadataQ, statsQ, tick, passes,
                   statsW, persistCalls, db, metaW, metaDb, en, reg, hist>>

\* TaskStart: container_tx.send(ContainerTask { id, pid }).await, when it
\* follows the metadata send or was suspended
EvStartSendTask ==
    /\ ev.pc = "ts_send_task"
    /\ Len(containerQ) < ContainerQueueCap
    /\ containerQ' = Append(containerQ, [id |-> ev.id.val, pid |-> ev.pid])
    /\ ev' = EvIdle(ev)
    /\ UNCHANGED <<parse, col, run, env, alive, stream, containers, metadataQ, statsQ, tick, passes,
                   statsW, persistCalls, db, metaW, metaDb, en, reg, hist>>

(***************************************************************************)
(* Discoverer, Job A: existing_containers_task (initial enumeration).      *)
(* en = [pc, ns (namespaces not yet finished, head = current),             *)
(*       cs (containers of the current namespace not yet looked at),      *)
(*       tasks (HashMap id -> pid), meta (Vec of (id, labels))].           *)
(***************************************************************************)
RECURSIVE EnNextNs(_)
\* top of the `for namespace` loop: namespaces whose name is no valid
\* header value are skipped; the next await is container_client.list
EnNextNs(e) ==
    IF e.ns = <<>> THEN [e EXCEPT !.pc = "done"]
    ELSE IF ~Head(e.ns).name_ok THEN EnNextNs([e EXCEPT !.ns = Tail(e.ns)])
    ELSE [e EXCEPT !.pc = "list_containers"]

\* after the `for container` loop: the two send loops, then the next namespace
EnStartSends(e) ==
    IF e.meta # <<>> THEN [e EXCEPT !.pc = "send_meta"]
    ELSE IF DOMAIN e.tasks # {} THEN [e EXCEPT !.pc = "send_task"]
    ELSE EnNextNs([e EXCEPT !.ns = Tail(e.ns)])

RECURSIVE EnNextContainer(_)
\* top of the `for container` loop: containers with a malformed id are
\* skipped; the next await is task_client.get
EnNextContainer(e) ==
    IF e.cs = <<>> THEN EnStartSends(e)
    ELSE IF ~ContainerID_from_str(Head(e.cs).id).some
         THEN EnNextContainer([e EXCEPT !.cs = Tail(e.cs)])
    ELSE [e EXCEPT !.pc = "get_task"]

\* namespace_client.list(..).await returns
EnListNamespaces(ok) ==
    /\ en.pc = "list_ns"
    /\ en' = IF ok THEN EnNextNs([en EXCEPT !.ns = env.namespaces])
                   ELSE [en EXCEPT !.pc = "done"]
    /\ UNCHANGED <<parse, col, run, env, alive, stream, containers, containerQ, metadataQ, statsQ, tick, passes,
                   statsW, persistCalls, db, metaW, metaDb, ev, reg, hist>>

\* container_client.list(request).await returns for the current namespace
EnListContainers ==
    /\ en.pc = "list_containers"
    /\ en' = IF Head(en.ns).list.some
             THEN EnNextContainer([en EXCEPT !.cs = Head(en.ns).list.val,
                                             !.tasks = << >>, !.meta = <<>>])
             ELSE EnNextNs([en EXCEPT !.ns = Tail(en.ns)])
    /\ UNCHANGED <<parse, col, run, env, alive, stream, containers, containerQ, metadataQ, statsQ, tick, passes,
                   statsW, persistCalls, db, metaW, metaDb, ev, reg, hist>>

\* mutant: the metadata is pushed before the status of the task is looked at
EnGetTaskAllMeta ==
    /\ en.pc = "get_task"
    /\ LET c == Head(en.cs)
           c_id == ContainerID_from_str(c.id).val
           rest == [en EXCEPT !.cs = Tail(en.cs),
                              !.meta = Append(en.meta, [id |-> c_id, labels |-> c.labels])]
       IN  en' = IF c.task.kind # "process" \/ c.task.status # "Running"
                 THEN EnNextContainer(rest)
                 ELSE EnNextContainer([rest EXCEPT
                          !.tasks = MapInsert(en.tasks, c_id, c.task.pid)])
    /\ UNCHANGED <<parse, col, run, env, alive, stream, containers, containerQ, metadataQ, statsQ, tick, passes,
                   statsW, persistCalls, db, metaW, metaDb, ev, reg, hist>>

\* task_client.get(request).await returns for the current container
EnGetTask ==
    /\ en.pc = "get_task"
    /\ LET c == Head(en.cs)
           c_id == ContainerID_from_str(c.id).val
           rest == [en EXCEPT !.cs = Tail(en.cs)]
       IN  en' = IF c.task.kind # "process" \/ c.task.status # "Running"
                 THEN EnNextContainer(rest)
                 ELSE EnNextContainer([rest EXCEPT
                          !.tasks = MapInsert(en.tasks, c_id, c.task.pid),
                          !.meta = Append(en.meta, [id |-> c_id, labels |-> c.labels])])
    /\ UNCHANGED <<parse, col, run, env, alive, stream, containers, containerQ, metadataQ, statsQ, tick, passes,
                   statsW, persistCalls, db, metaW, metaDb, ev, reg, hist>>

\* metadata_tx.send(container).await in `for container in metadata`
EnSendMeta ==
    /\ en.pc = "send_meta"
    /\ Len(metadataQ) < MetadataQueueCap
    /\ metadataQ' = Append(metadataQ, Head(en.meta))
    /\ en' = EnStartSends([en EXCEPT !.meta = Tail(en.meta)])
    /\ UNCHANGED <<parse, col, run, env, alive, stream, containers, containerQ, statsQ, tick, passes,
                   statsW, persistCalls, db, metaW, metaDb, ev, reg, hist>>

\* container_tx.send(task).await in `for task in tasks` (HashMap order)
EnSendTask(id) ==
    /\ en.pc = "send_task"
    /\ id \in DOMAIN en.tasks
    /\ Len(containerQ) < ContainerQueueCap
    /\ containerQ' = Append(containerQ, [id |-> id, pid |-> en.tasks[id]])
    /\ en' = EnStartSends([en EXCEPT !.tasks = MapRemove(en.tasks, id)])
    /\ UNCHANGED <<parse, col, run, env, alive, stream, containers, metadataQ, statsQ, tick, passes,
                   statsW, persistCalls, db, metaW, metaDb, ev, reg, hist>>

\* metadata_rx.recv().await yields None: every Sender is dropped
MetaExit ==
    /\ metaW.pc = "recv"
    /\ metadataQ = <<>>
    /\ ev.pc = "done"
    /\ en.pc = "done"
    /\ metaW' = [metaW EXCEPT !.pc = "done"]
    /\ UNCHANGED <<parse, col, run, env, alive, stream, containers, containerQ, metadataQ, statsQ, tick, passes,
                   statsW, persistCalls, db, metaDb, ev, en, reg, hist>>

(***************************************************************************)
(* The outside world: what the runtime, procfs and the timer can deliver.  *)
(***************************************************************************)
L1 == [app |-> "v1"]

Garbage == [garbage |-> TRUE, id |-> <<>>, labels |-> L1, pid |-> 0, exec_id |-> ""]

\* payloads of events
Values(e) ==
    {Garbage} \cup
    [garbage : {FALSE}, id : e.rawIds, labels : e.labels, pid : e.pids, exec_id : e.execIds]

\* envelopes the event stream can deliver
Msgs(e) ==
    {[event |-> NoVal, ns_ok |-> TRUE]} \cup
    {[event |-> Some([type_url |-> u, value |-> v]), ns_ok |-> n] :
        u \in e.typeUrls, v \in Values(e), n \in e.nsOk}

LineOk == [kind |-> "line", fields |-> <<"0", "", "/system.slice/c.scope">>]
LineV1 == [kind |-> "line", fields |-> <<"12", "cpu,memory", "/docker/c">>]
LineHier == [kind |-> "line", fields |-> <<"1", "", "/c">>]
LineCtrl == [kind |-> "line", fields |-> <<"0", "cpu", "/c">>]
LineNaN == [kind |-> "line", fields |-> <<"x", "", "/c">>]
LineShort == [kind |-> "line", fields |-> <<"0", "">>]
LineLong == [kind |-> "line", fields |-> <<"0", "", "/c", "x">>]

\* contents of <rootfs>/proc/<pid>/cgroup
CgroupFiles ==
    {[kind |-> "unreadable", fields |-> <<>>], [kind |-> "empty", fields |-> <<>>],
     LineOk, LineV1, LineHier, LineCtrl, LineNaN, LineShort, LineLong}

Running(pid) == [kind |-> "process", pid |-> pid, status |-> "Running"]
Stopped(pid) == [kind |-> "process", pid |-> pid, status |-> "Stopped"]
NoTask == [kind |-> "none", pid |-> 0, status |-> "Unknown"]

Container(id, labels, task) == [id |-> id, labels |-> labels, task |-> task]

Namespace(list) == [name_ok |-> TRUE, list |-> list]

\* responses of ContainersClient::get
GetResponses(e) ==
    {[kind |-> k, labels |-> L1] : k \in e.getKinds \ {"container"}} \cup
    {[kind |-> "container", labels |-> l] : k \in e.getKinds \cap {"container"}, l \in e.labels}

InitWith(e) ==
    /\ parse = NoVal
    /\ col = NoVal
    /\ run = [pc |-> "loop", res |-> "none"]
    /\ env = e
    /\ alive = e.pids \cup e.mortal
    /\ stream = "none"
    /\ containers = << >>
    /\ containerQ = <<>>
    /\ metadataQ = <<>>
    /\ statsQ = <<>>
    /\ tick = [pc |-> "tick", no |-> 0, out |-> <<>>]
    /\ passes = {}
    /\ statsW = [pc |-> "recv", batch |-> NoVal, res |-> "none"]
    /\ persistCalls = <<>>
    /\ db = {}
    /\ metaW = [pc |-> "recv", item |-> NoVal]
    /\ metaDb = << >>
    /\ ev = [pc |-> "subscribe", n |-> 0, id |-> NoVal, pid |-> 0, labels |-> NoVal,
             got |-> NoVal, emitted |-> FALSE,
             result |-> "none", last |-> [kind |-> "none", id |-> <<>>, exec |-> ""]]
    /\ en = [pc |-> "list_ns", ns |-> <<>>, cs |-> <<>>, tasks |-> << >>, meta |-> <<>>]
    /\ reg = [pc |-> "run", last |-> "none", file |-> NoVal]
    /\ hist = [dirty |-> FALSE, missed |-> {}]

(***************************************************************************)
(* The tasks of the program.                                               *)
(***************************************************************************)
TickLoop == Tick \/ (\E p \in passes : PassShard(p)) \/ (\E p \in passes : TickJoin(p)) \/ SendBatch

StatsWorker == StatsRecv \/ (\E ok \in env.sinkOk : StatsPersistDone(ok))

MetaWorker == MetaRecv \/ (\E ok \in env.sinkOk : MetaPersistDone(ok)) \/ MetaExit

RegHandleAny == \E f \in env.cgroupFiles, o \in env.openable : RegHandle(f, o)

EvSubscribeAny == \E ok \in BOOLEAN : EvSubscribe(ok)

EvMessageAny == \E msg \in Msgs(env) : EvMessage(msg)

EvGetContainerAny == \E resp \in GetResponses(env) : EvGetContainer(resp)

EnListNamespacesAny == \E ok \in env.listOk : EnListNamespaces(ok)

EnSendTaskAny == \E id \in DOMAIN en.tasks : EnSendTask(id)

EnumJob == EnListNamespacesAny \/ EnListContainers \/ EnGetTask \/ EnSendMeta \/ EnSendTaskAny

World == \E pid \in env.mortal : EnvExit(pid)

StreamEnds == \E how \in env.streamEnds : EnvStreamEnd(how)

EventsJob ==
    \/ EvSubscribeAny
    \/ EvStreamError
    \/ EvStreamClosed
    \/ EvMessageAny
    \/ EvUpdateSend
    \/ EvGetContainerAny
    \/ EvStartSendMeta
    \/ EvStartSendTask

RegWorker == RegHandleAny \/ RegExit

\* every task of the program and the outside world
Next ==
    TickLoop \/ StatsWorker \/ MetaWorker \/ RegWorker \/ EventsJob \/ EnumJob \/ World \/ StreamEnds

(***************************************************************************)
(* SpecRegistry: the tasks that read or write the Registry and the         *)
(* producers that feed them, in a world of two containers and two pids.    *)
(***************************************************************************)
RegistryEnv ==
    [rawIds |-> {IdA, IdB}, pids |-> {11}, mortal |-> {12}, labels |-> {L1},
     execIds |-> {"", "exec1"}, nsOk |-> {TRUE},
     typeUrls |-> {"containerd.events.TaskStart", "containerd.events.TaskDelete"},
     getKinds |-> {"err"},
     cgroupFiles |-> {LineOk, LineV1}, openable |-> {Slots}, sinkOk |-> BOOLEAN,
     log |-> {"registration"}, streamEnds |-> {}, listOk |-> BOOLEAN,
     maxEvents |-> MaxEvents, maxTicks |-> MaxTicks,
     namespaces |-> <<Namespace(Some(<<Container(IdB, L1, Running(12))>>))>>]

InitRegistry == InitWith(RegistryEnv)

NextRegistry ==
    \/ Tick
    \/ \E p \in passes : PassShard(p)
    \/ \E p \in passes : TickJoin(p)
    \/ RegHandleAny
    \/ EvSubscribeAny
    \/ EvMessageAny
    \/ EvGetContainerAny
    \/ EnListNamespacesAny
    \/ EnListContainers
    \/ EnGetTask
    \/ EnSendMeta
    \/ EnSendTaskAny
    \/ World

SpecRegistry == InitRegistry /\ [][NextRegistry]_vars

(***************************************************************************)
(* SpecDiscovery: the three Discoverer jobs and the metadata worker, with  *)
(* every kind of event, one container known to the runtime at start-up,    *)
(* and the tasks' log lines recorded.                                      *)
(***************************************************************************)
DiscoveryEnv ==
    [rawIds |-> {IdA, IdB, BadUpper}, pids |-> {11}, mortal |-> {}, labels |-> {L1},
     execIds |-> {"", "exec1"}, nsOk |-> {TRUE, FALSE}, typeUrls |-> TypeUrls,
     getKinds |-> {"err", "none", "container"},
     cgroupFiles |-> CgroupFiles, openable |-> {Slots}, sinkOk |-> BOOLEAN,
     log |-> {"registration", "events"}, streamEnds |-> {"closed", "failed"}, listOk |-> BOOLEAN,
     maxEvents |-> MaxEvents, maxTicks |-> 0,
     namespaces |-> <<Namespace(Some(<<Container(IdB, L1, Running(11))>>))>>]

InitDiscovery == InitWith(DiscoveryEnv)

NextDiscovery ==
    \/ RegHandleAny
    \/ RegExit
    \/ EvSubscribeAny
    \/ EvStreamError
    \/ EvStreamClosed
    \/ EvMessageAny
    \/ EvGetContainerAny
    \/ EvStartSendTask
    \/ EnListNamespacesAny
    \/ EnListContainers
    \/ EnGetTask
    \/ EnSendMeta
    \/ EnSendTaskAny
    \/ MetaRecv
    \/ \E ok \in env.sinkOk : MetaPersistDone(ok)
    \/ MetaExit
    \/ StreamEnds

SpecDiscovery == InitDiscovery /\ [][NextDiscovery]_vars

(***************************************************************************)
(* SpecStats: the tick loop and the stats worker over many ticks, with one *)
(* container known at start-up; the executor schedules the stats worker    *)
(* fairly and the sink returns from every call.                            *)
(***************************************************************************)
StatsEnv ==
    [rawIds |-> {IdB}, pids |-> {12}, mortal |-> {12}, labels |-> {L1},
     execIds |-> {""}, nsOk |-> {TRUE}, typeUrls |-> {},
     getKinds |-> {"err"},
     cgroupFiles |-> {LineOk}, openable |-> {Slots}, sinkOk |-> {TRUE},
     log |-> {}, streamEnds |-> {}, listOk |-> BOOLEAN,
     maxEvents |-> 0, maxTicks |-> MaxTicksBP,
     namespaces |-> <<Namespace(Some(<<Container(IdB, L1, Running(12))>>))>>]

InitStats == InitWith(StatsEnv)

StatsPersistAny == \E ok \in env.sinkOk : StatsPersistDone(ok)

NextStats ==
    \/ TickLoop
    \/ StatsRecv
    \/ StatsPersistAny
    \/ RegHandleAny
    \/ EnumJob
    \/ World

SpecStats ==
    InitStats /\ [][NextStats]_vars /\ WF_vars(StatsRecv) /\ WF_vars(StatsPersistAny)

(***************************************************************************)
(* SpecSaturation: the whole program in two worlds that fill the queues:   *)
(* many ticks with a quiet runtime, and many events about one container    *)
(* with no tick.                                                           *)
(***************************************************************************)
TickFloodEnv ==
    [rawIds |-> {}, pids |-> {}, mortal |-> {}, labels |-> {},
     execIds |-> {}, nsOk |-> {TRUE}, typeUrls |-> {},
     getKinds |-> {"err"},
     cgroupFiles |-> {LineOk}, openable |-> {Slots}, sinkOk |-> {TRUE},
     log |-> {}, streamEnds |-> {"closed", "failed"}, listOk |-> BOOLEAN,
     maxEvents |-> 0, maxTicks |-> MaxTicksBP,
     namespaces |-> <<>>]

EventFloodEnv ==
    [rawIds |-> {IdA}, pids |-> {11}, mortal |-> {11}, labels |-> {L1},
     execIds |-> {""}, nsOk |-> {TRUE},
     typeUrls |-> {"containerd.events.ContainerUpdate", "containerd.events.TaskStart"},
     getKinds |-> {"container"},
     cgroupFiles |-> {LineOk}, openable |-> {Slots}, sinkOk |-> {TRUE},
     log |-> {}, streamEnds |-> {}, listOk |-> BOOLEAN,
     maxEvents |-> MaxEventsBP, maxTicks |-> 0,
     namespaces |-> <<Namespace(Some(<<Container(IdA, L1, Running(11))>>))>>]

InitSaturation == InitWith(TickFloodEnv) \/ InitWith(EventFloodEnv)

SpecSaturation == InitSaturation /\ [][Next]_vars

(***************************************************************************)
(* Properties of the Registry (checked under SpecRegistry).                *)
(***************************************************************************)
\* p, q: the same pass before and after it has handled one shard
PassStep(p, q) == p \in passes /\ q \in passes' /\ q.ts = p.ts /\ q.k = p.k + 1

OutIds(out) == {out[i].container_id : i \in 1..Len(out)}

Finished(p) == p.k > NumShards

\* the step handles one container-add message
RegStep == containerQ # <<>> /\ containerQ' = Tail(containerQ)

\* C1, per visited entry: when a pass handles a shard, every entry of the
\* shard whose refresh_stats succeeds gets exactly one new StatsEntry with the
\* pass's ts and its id and stays in the Registry unchanged; every entry whose
\* refresh_stats fails gets no StatsEntry and is removed; nothing else is
\* appended and what was appended before stays.
C1_Step ==
    \A p \in passes, q \in passes' :
        PassStep(p, q) =>
            /\ Len(q.out) >= Len(p.out)
            /\ SubSeq(q.out, 1, Len(p.out)) = p.out
            /\ LET new == SubSeq(q.out, Len(p.out) + 1, Len(q.out))
                   visited == {id \in DOMAIN containers : ShardOf(id) = p.k}
               IN  /\ \A i \in 1..Len(new) :
                          new[i].timestamp = p.ts /\ new[i].container_id \in visited
                   /\ \A id \in visited :
                          IF refresh_stats(containers[id].collector, alive).ok
                          THEN /\ Cardinality({i \in 1..Len(new) : new[i].container_id = id}) = 1
                               /\ id \in DOMAIN containers'
                               /\ containers'[id] = containers[id]
                          ELSE /\ \A i \in 1..Len(new) : new[i].container_id # id
                               /\ id \notin DOMAIN containers'

\* C1, per pass: all entries of one pass carry the ts of the pass, and when
\* a pass is done and no register/remove ran during it, the ids appended are
\* exactly the ids left in the Registry.
C1_Pass ==
    \A p \in passes :
        /\ \A i \in 1..Len(p.out) : p.out[i].timestamp = p.ts
        /\ (Finished(p) /\ ~hist.dirty) => OutIds(p.out) = DOMAIN containers

\* C1: collect_stats appends one entry per readable container, drops every
\* unreadable one, and stamps all entries of a pass with the same ts.
C1_CollectStats == [][C1_Step]_vars /\ []C1_Pass

\* C1 witness: a finished, undisturbed pass that has both appended an entry
\* and dropped a container.
C1_Witness ==
    \E p \in passes : Finished(p) /\ ~hist.dirty /\ p.out # <<>> /\ p.logged # {}

\* C2, the registration step: the Registry maps the id to the new container
\* and to nothing else, the other entries are unchanged, the entry count is
\* unchanged if the id was present, and the id is never missing afterwards.
C2_Step ==
    (RegStep /\ reg'.last = "registered") =>
        LET t == Head(containerQ)
        IN  /\ DOMAIN containers' = (DOMAIN containers) \cup {t.id}
            /\ containers'[t.id] =
                   [container_id |-> t.id, pids |-> <<t.pid>>,
                    collector |-> containers'[t.id].collector]
            /\ containers'[t.id].collector.pid = t.pid
            /\ \A id \in (DOMAIN containers) \ {t.id} : containers'[id] = containers[id]
            /\ (t.id \in DOMAIN containers => size(containers') = size(containers))
            /\ (t.id \notin DOMAIN containers => size(containers') = size(containers) + 1)

\* C2, seen from a pass: a pass has at most one entry per id (never both the
\* old and the new Collector), read from the Collector of the pid it names.
C2_Pass ==
    \A p \in passes :
        \A i, j \in 1..Len(p.out) :
            p.out[i].container_id = p.out[j].container_id => i = j

\* C2: register_container is insert-or-replace, atomically.
C2_Register == [][C2_Step]_vars /\ []C2_Pass

\* C2 witness: a registration during a running pass has replaced the
\* Collector of IdB (pid 12) that the pass had already sampled by a new one (pid 11).
C2_Witness ==
    /\ reg.last = "registered"
    /\ hist.dirty
    /\ IdB \in DOMAIN containers
    /\ containers[IdB].collector.pid = 11
    /\ \E p \in passes : \E i \in 1..Len(p.out) :
           p.out[i].container_id = IdB /\ p.out[i].stats.pid = 12

\* C7, nothing is lost: a pass handling one shard leaves the entries of all
\* other shards untouched (so an entry registered meanwhile stays), and a
\* registration that runs during a pass leaves its entry in the Registry.
C7_Step ==
    /\ \A p \in passes, q \in passes' :
           PassStep(p, q) =>
               \A id \in DOMAIN containers :
                   ShardOf(id) # p.k =>
                       id \in DOMAIN containers' /\ containers'[id] = containers[id]
    /\ (RegStep /\ reg'.last = "registered" /\ passes # {}) =>
           Head(containerQ).id \in DOMAIN containers'

\* C7, the following pass: an id registered behind the back of the pass of
\* tick n and still registered is in the batch of every later pass that ran
\* undisturbed to its end; and the registration worker is never blocked.
C7_NextPass ==
    /\ \A p \in passes :
           (Finished(p) /\ ~hist.dirty) =>
               \A m \in hist.missed :
                   (m[2] < p.ts /\ m[1] \in DOMAIN containers) => m[1] \in OutIds(p.out)
    /\ (containerQ # <<>> /\ reg.pc = "run") => ENABLED RegHandleAny

\* C7: a registration concurrent with a pass is neither lost nor blocked,
\* and the following pass samples the new entry.
C7_ConcurrentRegister == [][C7_Step]_vars /\ []C7_NextPass

\* C7 witness: the pass of tick 2 is done and has sampled an id that was
\* registered during the pass of tick 1 after its shard had been visited.
C7_Witness ==
    \E p \in passes :
        /\ Finished(p) /\ ~hist.dirty /\ p.ts = 2
        /\ \E m \in hist.missed : m[2] = 1 /\ m[1] \in OutIds(p.out)

\* C8: at most one sampling pass exists at any time, it exists only while the
\* tick loop awaits it, and only a step of that one pass yields stats read
\* from Collector handles.
C8_State ==
    /\ Cardinality(passes) <= 1
    /\ (passes # {}) <=> (tick.pc = "await")
    /\ \A p \in passes : p.ts = tick.no

C8_Step ==
    \A p \in passes, q \in passes' :
        PassStep(p, q) => (tick.pc = "await" /\ passes = {p} /\ p.ts = tick.no)

\* C8: one pass at a time, awaited by the tick loop.
C8_OnePass == []C8_State /\ [][C8_Step]_vars

\* C8 witness: the pass of the second tick is running and has read a Collector.
C8_Witness == \E p \in passes : p.ts = 2 /\ p.out # <<>> /\ tick.pc = "await"

(***************************************************************************)
(* Properties of the event subscription (checked under SpecDiscovery).     *)
(***************************************************************************)
\* the step receives one event
EvStep == ev'.n = ev.n + 1

\* C3: a TaskDelete with empty exec_id and a well-formed id removes exactly
\* that id from the Registry (nothing if it is absent) and leaves every other
\* entry as it is; a TaskDelete with a non-empty exec_id leaves the Registry
\* unchanged.
C3_Step ==
    (EvStep /\ ev'.last.kind = "TaskDelete") =>
        IF ev'.last.exec = ""
        THEN /\ DOMAIN containers' = (DOMAIN containers) \ {ev'.last.id}
             /\ \A id \in DOMAIN containers' : containers'[id] = containers[id]
        ELSE containers' = containers

C3_TaskDelete == [][C3_Step]_vars

\* C3 witness: the only event so far was the TaskDelete of IdB with empty
\* exec_id; IdB had been registered (by the enumeration) and is gone.
C3_Witness ==
    /\ ev.n = 1
    /\ ev.last = [kind |-> "TaskDelete", id |-> IdB, exec |-> ""]
    /\ reg.last = "registered"
    /\ containerQ = <<>>
    /\ en.pc = "done"
    /\ IdB \notin DOMAIN containers

\* C9: an event without payload, with an unknown type_url, with a payload
\* that does not decode or with a malformed container id changes neither the
\* Registry nor the container-add queue nor the metadata queue, and the job
\* is ready to receive the next event.
C9_Step ==
    (EvStep /\ ev'.last.kind \in {"NoPayload", "UnknownEvent", "EventDecode", "InvalidContainerID"}) =>
        /\ containers' = containers
        /\ containerQ' = containerQ
        /\ metadataQ' = metadataQ
        /\ ev'.pc = "recv"
        /\ ev'.result = "none"

C9_BadEventIsolated == [][C9_Step]_vars

\* C9 witness: the job has just handled a payload that failed to decode,
\* while a container is registered and a metadata update is queued, and is
\* back at the receive.
C9_Witness ==
    /\ ev.last.kind = "EventDecode"
    /\ ev.pc = "recv"
    /\ DOMAIN containers # {}
    /\ metadataQ # <<>>

\* C10 as claimed: whenever the stream has ended, by close or by error, the
\* job finishes with an error.
C10_Original ==
    (ev.pc = "done" /\ stream \in {"closed", "failed"}) => ev.result = "Err(EventMessage)"

\* C10 amended: a receive error ends the job with Err(EventMessage); the
\* end of the stream (the runtime closed it) ends the job with Ok(()).
C10_StreamEnd ==
    /\ (ev.pc = "done" /\ stream = "failed") => ev.result = "Err(EventMessage)"
    /\ (ev.pc = "done" /\ stream = "closed") => ev.result = "Ok"

\* C10 witness: the job has finished on a receive error after handling an event.
C10_Witness == ev.pc = "done" /\ stream = "failed" /\ ev.n > 0 /\ ev.result = "Err(EventMessage)"

(***************************************************************************)
(* Properties of the queues (SpecStats, SpecSaturation).                   *)
(***************************************************************************)
QTicks(q) == [i \in 1..Len(q) |-> q[i].tick]

\* the ticks whose batch exists: handed to persist_stats, queued, or held
\* by the suspended send, in this order
BatchTicks ==
    persistCalls \o QTicks(statsQ) \o (IF tick.pc = "send" THEN <<tick.no>> ELSE <<>>)

\* the ticks whose pass has been joined
JoinedTicks == IF tick.pc = "await" THEN tick.no - 1 ELSE tick.no

\* C4, safety: the batch of every joined tick exists exactly once, in tick
\* order, either handed to the worker, in the queue, or held by the waiting
\* send; a queued batch holds what its pass sampled at its ts.
C4_Conserved ==
    /\ BatchTicks = [i \in 1..JoinedTicks |-> i]
    /\ \A i \in 1..Len(statsQ) : \A j \in 1..Len(statsQ[i].entries) :
           statsQ[i].entries[j].timestamp = statsQ[i].tick

\* C4, the full queue: a send that finds 10 batches queued waits with its
\* batch until the step that appends it, and no step discards a queued batch.
C4_Step ==
    /\ (tick.pc = "send" /\ tick'.pc # "send") =>
           (Len(statsQ) < StatsQueueCap /\
            statsQ' = Append(statsQ, [tick |-> tick.no, entries |-> tick.out]))
    /\ (tick.pc # "send" /\ tick'.pc = "send") => Len(statsQ) = StatsQueueCap
    /\ (statsQ' # statsQ) =>
           \/ \E b \in {statsQ'[i] : i \in 1..Len(statsQ')} : statsQ' = Append(statsQ, b)
           \/ (statsQ' = Tail(statsQ) /\ statsW'.batch = Head(statsQ))

\* C4: no batch is dropped, each is sent once and is eventually received by
\* the stats worker; with 10 batches queued the tick loop waits in the send.
C4_NoBatchDropped ==
    /\ []C4_Conserved
    /\ [][C4_Step]_vars
    /\ \A n \in 1..MaxTicksBP : (n \in Range(QTicks(statsQ))) ~> (n \in Range(persistCalls))

\* C4 witness: 10 batches are queued and the tick loop waits in the send
\* with the eleventh.
C4_Witness == tick.pc = "send" /\ Len(statsQ) = StatsQueueCap /\ tick.out # <<>>

\* C5: persist_stats is invoked for the batches in tick order, and it is
\* invoked only when the previous invocation has returned.
C5_State ==
    /\ persistCalls = [i \in 1..Len(persistCalls) |-> i]
    /\ statsW.pc = "persist" =>
           (persistCalls # <<>> /\ statsW.batch.tick = persistCalls[Len(persistCalls)])

C5_Step ==
    (persistCalls' # persistCalls) =>
        /\ statsW.pc = "recv"
        /\ statsW'.pc = "persist"
        /\ persistCalls' = Append(persistCalls, Head(statsQ).tick)

C5_TickOrder == []C5_State /\ [][C5_Step]_vars

\* C5 witness: the third batch is being written while later batches wait.
C5_Witness == statsW.pc = "persist" /\ Len(persistCalls) = 3 /\ Len(statsQ) >= 2

\* C6, the bounds.
C6_State ==
    /\ Len(containerQ) <= ContainerQueueCap
    /\ Len(statsQ) <= StatsQueueCap
    /\ Len(metadataQ) <= MetadataQueueCap

\* C6, the producers: a producer leaves a suspended send only by the step
\* that appends its item to a queue with a free slot, and is suspended only
\* at a full queue.
C6_Step ==
    /\ (tick.pc = "send" /\ tick' # tick) =>
           (Len(statsQ) < StatsQueueCap /\ Len(statsQ') = Len(statsQ) + 1)
    /\ (ev.pc \in {"cu_send", "ts_send_meta"} /\ ev' # ev) =>
           (Len(metadataQ) < MetadataQueueCap /\
            metadataQ' = Append(metadataQ, [id |-> ev.id.val, labels |-> ev.labels.val]))
    /\ (ev.pc = "ts_send_task" /\ ev' # ev) =>
           (Len(containerQ) < ContainerQueueCap /\
            containerQ' = Append(containerQ, [id |-> ev.id.val, pid |-> ev.pid]))
    /\ (en.pc = "send_meta" /\ en' # en) =>
           (Len(metadataQ) < MetadataQueueCap /\ metadataQ' = Append(metadataQ, Head(en.meta)))
    /\ (en.pc = "send_task" /\ en' # en) =>
           (Len(containerQ) < ContainerQueueCap /\ Len(containerQ') = Len(containerQ) + 1)
    /\ (tick.pc # "send" /\ tick'.pc = "send") => Len(statsQ) = StatsQueueCap
    /\ (ev.pc \notin {"cu_send", "ts_send_meta"} /\ ev'.pc \in {"cu_send", "ts_send_meta"}) =>
           Len(metadataQ) = MetadataQueueCap

\* C6: the three queues never exceed their capacities, and a producer at a
\* full queue waits until the consumer has taken an item.
C6_BoundedQueues == []C6_State /\ [][C6_Step]_vars

\* C6 witness: the container-add queue holds 10 messages and the metadata
\* queue 15 updates, and the event job is suspended in a send.
C6_Witness ==
    /\ Len(containerQ) = ContainerQueueCap
    /\ Len(metadataQ) = MetadataQueueCap
    /\ ev.pc \in {"cu_send", "ts_send_meta", "ts_send_task"}

(***************************************************************************)
(* The orchestrator and the results of the Discoverer jobs                 *)
(* (SpecSaturation).                                                       *)
(***************************************************************************)
\* C11: once the event-subscription job has ended with an error (subscribe
\* failure or receive error), run() starts no further tick.
C11_Original ==
    [][(ev.pc = "done" /\ ev.result \in {"Err(Subscribe)", "Err(EventMessage)"})
          => tick'.no = tick.no]_vars

(***************************************************************************)
(* Properties of the TaskStart handler (SpecDiscovery).                    *)
(***************************************************************************)
TaskAdd == [id |-> ev.id.val, pid |-> ev.pid]

\* C12 as stated: the handling of a TaskStart with a well-formed id ends
\* with its metadata update emitted and then its container-add.
C12_Original ==
    [][(ev.pc \in {"ts_get", "ts_send_task"} /\ ev'.pc = "recv")
          => (ev.emitted /\ containerQ' = Append(containerQ, TaskAdd))]_vars

C12_State ==
    /\ ev.pc = "ts_get" => (~ev.emitted /\ ~ev.got.some)
    /\ ev.pc = "ts_send_meta" =>
           (~ev.emitted /\ ev.got.some /\ ev.got.val.kind = "container")
    /\ ev.pc = "ts_send_task" =>
           (ev.got.some /\ (ev.emitted <=> ev.got.val.kind = "container"))

C12_Step ==
    /\ (ev.pc = "recv" /\ ev'.pc \in {"ts_get", "done"}) =>
           (containerQ' = containerQ /\ metadataQ' = metadataQ)
    /\ (ev.pc = "ts_get" /\ ev' # ev) =>
           \/ /\ \E r \in GetResponses(env) :
                     /\ r.kind = "container"
                     /\ ev'.got = Some(r)
                     /\ \/ /\ metadataQ' = Append(metadataQ, [id |-> ev.id.val, labels |-> r.labels])
                           /\ ev'.pc = "ts_send_task"
                        \/ /\ metadataQ' = metadataQ
                           /\ Len(metadataQ) = MetadataQueueCap
                           /\ ev'.pc = "ts_send_meta"
              /\ containerQ' = containerQ
           \/ /\ metadataQ' = metadataQ
              /\ \/ containerQ' = Append(containerQ, TaskAdd) /\ ev'.pc = "recv"
                 \/ /\ containerQ' = containerQ
                    /\ ev'.pc = "ts_send_task"
                    /\ ev'.got.val.kind # "container"
    /\ (ev.pc = "ts_send_meta" /\ ev' # ev) =>
           /\ metadataQ' = Append(metadataQ, [id |-> ev.id.val, labels |-> ev.got.val.labels])
           /\ containerQ' = containerQ
           /\ ev'.pc = "ts_send_task"
    /\ (ev.pc = "ts_send_task" /\ ev' # ev) =>
           /\ containerQ' = Append(containerQ, TaskAdd)
           /\ metadataQ' = metadataQ \/ metadataQ' = Tail(metadataQ)
           /\ ev'.pc = "recv"

\* C12 (amended): for a TaskStart with a well-formed id and a namespace that
\* is a valid header value, a container returned by the runtime makes the
\* job emit (id, labels of the response) and only then (id, pid); a failed
\* or empty response makes it emit (id, pid) alone; an invalid namespace
\* ends the job by a panic with nothing emitted.
C12_TaskStart == []C12_State /\ [][C12_Step]_vars

\* C12 witness: the metadata update of a TaskStart is emitted and its
\* container-add is about to be sent.
C12_Witness ==
    /\ ev.pc = "ts_send_task"
    /\ ev.emitted
    /\ ev.got.val.kind = "container"
    /\ \E i \in 1..Len(metadataQ) : metadataQ[i].id = ev.id.val

(***************************************************************************)
(* SpecEnumeration: the initial enumeration alone, over the worlds the     *)
(* runtime can present: one or two namespaces, the first listing up to     *)
(* MaxListed containers with distinct ids.  No consumer runs, so at the    *)
(* end the two queues hold everything the job has emitted.                 *)
(***************************************************************************)
Listable ==
    {Container(IdA, L1, Running(11)), Container(IdA, L1, Stopped(11)),
     Container(IdB, L1, Running(12)), Container(IdB, L1, NoTask),
     Container(BadUpper, L1, Running(11))}

\* lists of at most n containers with pairwise distinct ids
Listings(n) ==
    {l \in UNION {[1..k -> Listable] : k \in 0..n} :
        \A i, j \in DOMAIN l : l[i].id = l[j].id => i = j}

FirstNamespaces == {Namespace(Some(l)) : l \in Listings(MaxListed)}

SecondNamespaces ==
    {Namespace(NoVal),
     [name_ok |-> FALSE, list |-> Some(<<Container(IdA, L1, Running(11))>>)],
     Namespace(Some(<<Container(IdA, L1, Running(11))>>))}

EnumWorlds ==
    {<<a>> : a \in FirstNamespaces} \cup
    {<<a, b>> : a \in FirstNamespaces, b \in SecondNamespaces} \cup
    {<<b, a>> : a \in FirstNamespaces, b \in SecondNamespaces}

EnumEnv(nss, ok) ==
    [rawIds |-> {}, pids |-> {11, 12}, mortal |-> {}, labels |-> {L1},
     execIds |-> {}, nsOk |-> {TRUE}, typeUrls |-> {},
     getKinds |-> {"err"},
     cgroupFiles |-> {LineOk}, openable |-> {Slots}, sinkOk |-> {TRUE},
     log |-> {}, streamEnds |-> {}, listOk |-> {ok},
     maxEvents |-> 0, maxTicks |-> 0,
     namespaces |-> nss]

InitEnumeration == \E nss \in EnumWorlds, ok \in BOOLEAN : InitWith(EnumEnv(nss, ok))

SpecEnumeration == InitEnumeration /\ [][EnumJob]_vars

(***************************************************************************)
(* Properties of the initial enumeration (SpecEnumeration).                *)
(***************************************************************************)
Count(q, x) == Cardinality({i \in 1..Len(q) : q[i] = x})

\* the containers of a namespace the enumeration gets to see
Listed(ns) == IF ns.name_ok /\ ns.list.some THEN ns.list.val ELSE <<>>

IsRunning(c) == c.task.kind = "process" /\ c.task.status = "Running"

WellFormed(c) == ContainerID_from_str(c.id).some

RECURSIVE Flatten(_)
Flatten(ss) == IF ss = <<>> THEN <<>> ELSE Head(ss) \o Flatten(Tail(ss))

\* nothing is seen when the listing of the namespaces fails
AllListed ==
    IF env.listOk = {TRUE}
    THEN Flatten([i \in 1..Len(env.namespaces) |-> Listed(env.namespaces[i])])
    ELSE <<>>

MetaOf(c) == [id |-> c.id, labels |-> c.labels]

AddOf(c) == [id |-> c.id, pid |-> c.task.pid]

Wanted(c) == WellFormed(c) /\ IsRunning(c)

AllWanted == SelectSeq(AllListed, Wanted)

\* C13 as stated: at the end there is one metadata update per listed
\* container, and one container-add per container with a Running task.
C13_Original ==
    en.pc = "done" =>
        /\ \A i \in 1..Len(AllListed) :
               WellFormed(AllListed[i]) =>
                   Count(metadataQ, MetaOf(AllListed[i])) =
                       Count(AllListed, AllListed[i])
        /\ \A i \in 1..Len(AllWanted) :
               Count(containerQ, AddOf(AllWanted[i])) =
                   Count([j \in 1..Len(AllWanted) |-> AddOf(AllWanted[j])], AddOf(AllWanted[i]))
        /\ Len(containerQ) = Len(AllWanted)

\* C13 (amended): at the end of the enumeration the metadata queue holds,
\* in listing order, exactly one update (id, labels) per listed container
\* with a well-formed id whose task is Running, the container-add queue
\* holds exactly one (id, pid) per such container and nothing else; a
\* container whose task is missing or not Running yields neither.
C13_Enumeration ==
    en.pc = "done" =>
        /\ metadataQ = [i \in 1..Len(AllWanted) |-> MetaOf(AllWanted[i])]
        /\ Len(containerQ) = Len(AllWanted)
        /\ \A i \in 1..Len(AllWanted) :
               Count(containerQ, AddOf(AllWanted[i])) =
                   Count([j \in 1..Len(AllWanted) |-> AddOf(AllWanted[j])], AddOf(AllWanted[i]))

\* C13 witness: the enumeration has ended in a world that listed a running
\* container next to one that is not running.
C13_Witness ==
    /\ en.pc = "done"
    /\ Len(AllWanted) >= 2
    /\ Len(AllListed) > Len(AllWanted)
    /\ Len(containerQ) = Len(AllWanted)

(***************************************************************************)
(* SpecRegistration: the registration worker fed by the enumeration of two *)
(* running containers, with every kind of cgroup file, one process that    *)
(* can exit, and the file read for each message recorded.                  *)
(***************************************************************************)
RegistrationEnv ==
    [rawIds |-> {}, pids |-> {11}, mortal |-> {12}, labels |-> {L1},
     execIds |-> {}, nsOk |-> {TRUE}, typeUrls |-> {},
     getKinds |-> {"err"},
     cgroupFiles |-> CgroupFiles, openable |-> {Slots, {"cpu.stat"}}, sinkOk |-> {TRUE},
     log |-> {"registration", "files"}, streamEnds |-> {}, listOk |-> {TRUE},
     maxEvents |-> 0, maxTicks |-> 0,
     namespaces |-> <<Namespace(Some(<<Container(IdA, L1, Running(11)),
                                      Container(IdB, L1, Running(12))>>)),
                     Namespace(Some(<<Container(IdA, L1, Running(12))>>))>>]

InitRegistration == InitWith(RegistrationEnv)

NextRegistration == EnumJob \/ RegHandleAny \/ World

SpecRegistration == InitRegistration /\ [][NextRegistration]_vars

(***************************************************************************)
(* Properties of the registration worker (SpecRegistration).               *)
(***************************************************************************)
\* the first line of the file is `0::<path>`
V2Line(f) ==
    /\ f.kind = "line"
    /\ Len(f.fields) = 3
    /\ f.fields[1] = "0"
    /\ f.fields[2] = ""

\* C14, one message handled: unless the file of the message's pid opens and
\* its first line has hierarchy id 0, an empty controller list and a path,
\* the Registry is unchanged; otherwise the message's id, and no other, is
\* registered.  Either way the worker is ready for the next message.
C14_Step ==
    (containerQ # <<>> /\ containerQ' = Tail(containerQ)) =>
        LET t == Head(containerQ)
            f == reg'.file.val
        IN  /\ reg'.file.some
            /\ reg'.pc = "run"
            /\ IF t.pid \in alive /\ V2Line(f)
               THEN /\ t.id \in DOMAIN containers'
                    /\ containers'[t.id].container_id = t.id
                    /\ containers'[t.id].pids = <<t.pid>>
                    /\ \A id \in (DOMAIN containers \cup DOMAIN containers') \ {t.id} :
                           /\ id \in DOMAIN containers
                           /\ id \in DOMAIN containers'
                           /\ containers'[id] = containers[id]
               ELSE containers' = containers

C14_CgroupLine == [][C14_Step]_vars

\* C14 witness: a message was skipped for a line with a controller list
\* after another message had been registered.
C14_Witness ==
    /\ reg.file.some
    /\ reg.file.val = LineCtrl
    /\ DOMAIN containers # {}
    /\ containerQ # <<>>

(***************************************************************************)
(* SpecPersist: the tick loop and the stats worker with a sink that can    *)
(* fail, over two containers known at start-up, one of which can exit.     *)
(***************************************************************************)
PersistEnv ==
    [rawIds |-> {}, pids |-> {11}, mortal |-> {12}, labels |-> {L1},
     execIds |-> {}, nsOk |-> {TRUE}, typeUrls |-> {},
     getKinds |-> {"err"},
     cgroupFiles |-> {LineOk}, openable |-> {Slots}, sinkOk |-> BOOLEAN,
     log |-> {}, streamEnds |-> {}, listOk |-> {TRUE},
     maxEvents |-> 0, maxTicks |-> MaxTicks,
     namespaces |-> <<Namespace(Some(<<Container(IdA, L1, Running(11)),
                                      Container(IdB, L1, Running(12))>>))>>]

InitPersist == InitWith(PersistEnv)

NextPersist ==
    \/ Tick
    \/ \E p \in passes : PassShard(p)
    \/ \E p \in passes : TickJoin(p)
    \/ StatsRecv
    \/ StatsPersistAny
    \/ RegHandleAny
    \/ EnumJob
    \/ World

SpecPersist == InitPersist /\ [][NextPersist]_vars

(***************************************************************************)
(* Properties of the stats sink (SpecPersist).                             *)
(***************************************************************************)
\* a call of persist_stats returns in this step
PersistReturns == statsW.pc = "persist" /\ statsW'.pc = "recv"

\* C15, the failing return: nothing is written, the batch is not put back
\* in the queue nor handed to persist_stats again, and no other task is
\* touched; rows only ever appear at the return of their own batch's call.
C15_Step ==
    /\ (PersistReturns /\ statsW'.res = "Err") =>
           /\ db' = db
           /\ statsQ' = statsQ
           /\ persistCalls' = persistCalls
           /\ UNCHANGED <<tick, passes, containers, containerQ, metadataQ, ev, en, reg, metaW>>
    /\ (db' # db) =>
           /\ PersistReturns
           /\ statsW'.res = "Ok"
           /\ \A r \in db' \ db : r.timestamp = statsW.batch.tick

\* C15, the worker afterwards: it is at the receive, takes the next batch
\* as soon as there is one, and no tick is handed to persist_stats twice.
C15_State ==
    /\ (statsW.pc = "recv" /\ statsQ # <<>>) => ENABLED StatsRecv
    /\ \A i, j \in 1..Len(persistCalls) : i < j => persistCalls[i] < persistCalls[j]

\* C15: a failed persist_stats is logged and its batch is lost; the stats
\* worker goes on with the next batch and nothing else is stopped.
C15_BatchLost == []C15_State /\ [][C15_Step]_vars

\* C15 witness: after the write of a non-empty batch has failed and left no
\* row, the worker is writing the batch of a later tick.
C15_Witness ==
    /\ statsW.pc = "persist"
    /\ statsW.res = "Err"
    /\ statsW.batch.entries # <<>>
    /\ db = {}
    /\ \E id \in DOMAIN containers : TRUE

\* C16: the return of persist_stats leaves the store as it was or with one
\* row for every entry of the batch added; no other step changes the store.
C16_Step ==
    /\ PersistReturns =>
           \/ db' = db /\ statsW'.res = "Err"
           \/ db' = db \cup Range(statsW.batch.entries) /\ statsW'.res = "Ok"
    /\ ~PersistReturns => db' = db

\* C16: a batch is written atomically.
C16_Atomic == [][C16_Step]_vars

\* C16 witness: a batch of two entries has been committed.
C16_Witness ==
    /\ statsW.res = "Ok"
    /\ \E r1, r2 \in db : r1.timestamp = r2.timestamp /\ r1.container_id # r2.container_id

(***************************************************************************)
(* run(), start-up (lib.rs 118-207).  The steps that can fail, in program  *)
(* order; a task that is not spawned yet has pc "off", and a task of a     *)
(* process whose run() has returned has pc "killed".                       *)
(***************************************************************************)
StartupSteps ==
    <<"cgroup2", "machine_id", "hostname", "database_url", "db_connect", "migrate">>

Killed(t) == IF t.pc = "off" THEN t ELSE [t EXCEPT !.pc = "killed"]

\* run() returns (or panics) with res: the process ends with all its tasks
RunExit(res) ==
    /\ run' = [pc |-> "exit", res |-> res]
    /\ tick' = Killed(tick)
    /\ statsW' = Killed(statsW)
    /\ metaW' = Killed(metaW)
    /\ ev' = Killed(ev)
    /\ en' = Killed(en)
    /\ reg' = Killed(reg)
    /\ UNCHANGED <<parse, col, env, alive, stream, containers, containerQ, metadataQ, statsQ, passes,
                   persistCalls, db, metaDb, hist>>

\* detect_runtime_environment and the check of the host root mount
RunRootfs(inContainer, exists) ==
    /\ run.pc = "rootfs"
    /\ IF inContainer /\ ~exists
       THEN RunExit("Err(rootfs)")
       ELSE /\ run' = [run EXCEPT !.pc = "cgroup2"]
            /\ UNCHANGED <<parse, col, env, alive, stream, containers, containerQ, metadataQ, statsQ, tick,
                           passes, statsW, persistCalls, db, metaW, metaDb, ev, en, reg, hist>>

\* mutant: the Discoverer is started where it is constructed, before the
\* machine id is read
RunStartupEarlyStart(ok) ==
    /\ \E i \in 1..Len(StartupSteps) :
           /\ run.pc = StartupSteps[i]
           /\ IF ~ok
              THEN RunExit(IF run.pc = "database_url" THEN "Panic"
                           ELSE "Err(" \o run.pc \o ")")
              ELSE /\ run' = [run EXCEPT !.pc = IF i < Len(StartupSteps)
                                                THEN StartupSteps[i + 1]
                                                ELSE "connect_events"]
                   /\ metaW' = IF i = Len(StartupSteps)
                               THEN [metaW EXCEPT !.pc = "recv"] ELSE metaW
                   /\ reg' = IF run.pc = "cgroup2" THEN [reg EXCEPT !.pc = "run"] ELSE reg
                   /\ UNCHANGED <<parse, col, env, alive, stream, containers, containerQ, metadataQ,
                                  statsQ, tick, passes, statsW, persistCalls, db, metaDb,
                                  ev, en, hist>>

\* the steps from the cgroup2 mount point to the migration: an Err returns
\* from run() by `?` (a missing DATABASE_URL panics); after the migration
\* the metadata worker is spawned and Discoverer::start spawns
\* add_container_task
RunStartup(ok) ==
    /\ \E i \in 1..Len(StartupSteps) :
           /\ run.pc = StartupSteps[i]
           /\ IF ~ok
              THEN RunExit(IF run.pc = "database_url" THEN "Panic"
                           ELSE "Err(" \o run.pc \o ")")
              ELSE /\ run' = [run EXCEPT !.pc = IF i < Len(StartupSteps)
                                                THEN StartupSteps[i + 1]
                                                ELSE "connect_events"]
                   /\ metaW' = IF i = Len(StartupSteps)
                               THEN [metaW EXCEPT !.pc = "recv"] ELSE metaW
                   /\ reg' = IF i = Len(StartupSteps)
                             THEN [reg EXCEPT !.pc = "run"] ELSE reg
                   /\ UNCHANGED <<parse, col, env, alive, stream, containers, containerQ, metadataQ,
                                  statsQ, tick, passes, statsW, persistCalls, db, metaDb,
                                  ev, en, hist>>

\* Discoverer::start: channel_for_unix_socket(..).await for events_task
RunConnectEvents(ok) ==
    /\ run.pc = "connect_events"
    /\ IF ~ok
       THEN RunExit("Err(SocketConnect)")
       ELSE /\ run' = [run EXCEPT !.pc = "connect_enum"]
            /\ ev' = [ev EXCEPT !.pc = "subscribe"]
            /\ UNCHANGED <<parse, col, env, alive, stream, containers, containerQ, metadataQ, statsQ, tick,
                           passes, statsW, persistCalls, db, metaW, metaDb, en, reg, hist>>

\* Discoverer::start: channel_for_unix_socket(..).await for
\* existing_containers_task; then run() spawns the stats worker and enters
\* the tick loop
RunConnectEnum(ok) ==
    /\ run.pc = "connect_enum"
    /\ IF ~ok
       THEN RunExit("Err(SocketConnect)")
       ELSE /\ run' = [run EXCEPT !.pc = "loop"]
            /\ en' = [en EXCEPT !.pc = "list_ns"]
            /\ statsW' = [statsW EXCEPT !.pc = "recv"]
            /\ tick' = [tick EXCEPT !.pc = "tick"]
            /\ UNCHANGED <<parse, col, env, alive, stream, containers, containerQ, metadataQ, statsQ,
                           passes, persistCalls, db, metaW, metaDb, ev, reg, hist>>

\* the process at the call of run(): nothing is spawned
InitStartup(e) ==
    /\ parse = NoVal
    /\ col = NoVal
    /\ run = [pc |-> "rootfs", res |-> "none"]
    /\ env = e
    /\ alive = e.pids \cup e.mortal
    /\ stream = "none"
    /\ containers = << >>
    /\ containerQ = <<>>
    /\ metadataQ = <<>>
    /\ statsQ = <<>>
    /\ tick = [pc |-> "off", no |-> 0, out |-> <<>>]
    /\ passes = {}
    /\ statsW = [pc |-> "off", batch |-> NoVal, res |-> "none"]
    /\ persistCalls = <<>>
    /\ db = {}
    /\ metaW = [pc |-> "off", item |-> NoVal]
    /\ metaDb = << >>
    /\ ev = [pc |-> "off", n |-> 0, id |-> NoVal, pid |-> 0, labels |-> NoVal,
             got |-> NoVal, emitted |-> FALSE,
             result |-> "none", last |-> [kind |-> "none", id |-> <<>>, exec |-> ""]]
    /\ en = [pc |-> "off", ns |-> <<>>, cs |-> <<>>, tasks |-> << >>, meta |-> <<>>]
    /\ reg = [pc |-> "off", last |-> "none", file |-> NoVal]
    /\ hist = [dirty |-> FALSE, missed |-> {}]

(***************************************************************************)
(* SpecStartup: run() from its call, through start-up, into a short run    *)
(* over one container known to the runtime.                                *)
(***************************************************************************)
StartupEnv ==
    [rawIds |-> {}, pids |-> {11}, mortal |-> {}, labels |-> {L1},
     execIds |-> {}, nsOk |-> {TRUE}, typeUrls |-> {},
     getKinds |-> {"err"},
     cgroupFiles |-> {LineOk}, openable |-> {Slots}, sinkOk |-> {TRUE},
     log |-> {}, streamEnds |-> {}, listOk |-> {TRUE},
     maxEvents |-> 0, maxTicks |-> MaxTicks,
     namespaces |-> <<Namespace(Some(<<Container(IdA, L1, Running(11))>>))>>]

NextStartup ==
    \/ \E c, x \in BOOLEAN : RunRootfs(c, x)
    \/ \E ok \in BOOLEAN : RunStartup(ok)
    \/ \E ok \in BOOLEAN : RunConnectEvents(ok)
    \/ \E ok \in BOOLEAN : RunConnectEnum(ok)
    \/ Tick
    \/ \E p \in passes : PassShard(p)
    \/ \E p \in passes : TickJoin(p)
    \/ StatsRecv
    \/ StatsPersistAny
    \/ MetaRecv
    \/ \E ok \in env.sinkOk : MetaPersistDone(ok)
    \/ RegHandleAny
    \/ EvSubscribeAny
    \/ EnumJob

SpecStartup == InitStartup(StartupEnv) /\ [][NextStartup]_vars

(***************************************************************************)
(* Properties of start-up (SpecStartup).                                   *)
(***************************************************************************)
FatalStartup ==
    {"Err(rootfs)", "Err(cgroup2)", "Err(machine_id)", "Err(db_connect)", "Err(migrate)"}

NothingStarted ==
    /\ tick.pc = "off" /\ tick.no = 0 /\ passes = {}
    /\ statsW.pc = "off"
    /\ metaW.pc = "off"
    /\ ev.pc = "off"
    /\ en.pc = "off"
    /\ reg.pc = "off"

NothingDone ==
    /\ containers = << >>
    /\ containerQ = <<>> /\ metadataQ = <<>> /\ statsQ = <<>>
    /\ persistCalls = <<>> /\ db = {} /\ metaDb = << >>

\* C17: when run() has returned one of the fatal start-up errors, no job,
\* worker or tick was ever started, nothing is registered or sampled, and
\* nothing happens afterwards.
C17_State == (run.pc = "exit" /\ run.res \in FatalStartup) => (NothingStarted /\ NothingDone)

C17_Step == run.pc = "exit" => UNCHANGED vars

C17_FatalStartup == []C17_State /\ [][C17_Step]_vars

\* C17 witness: run() has returned because the migration failed.
C17_Witness == run.pc = "exit" /\ run.res = "Err(migrate)" /\ NothingStarted

(***************************************************************************)
(* Stat parsers (cgroup/stats) and the file handles of a Collector         *)
(* (cgroup/utils.rs, cgroup/collector.rs), at the level of lines and       *)
(* tokens.  A file is a sequence of lines, a line a sequence of tokens; a  *)
(* token "k<sep>v" is [k, sep, v], a token without separator [k, "", ""].  *)
(* A reader R is [lines, off, io]: the content, the number of lines        *)
(* consumed so far, and whether read() succeeds.                           *)
(***************************************************************************)
T(s) == [k |-> s, sep |-> "", v |-> ""]

KV(k, sep, v) == [k |-> k, sep |-> sep, v |-> v]

\* the largest u64 of the model: it stands for 2^64 - 1, which the numeral
\* "18446744073709551615" denotes; the other numerals of the model are far
\* below it
U64_MAX == 1000000

\* u64 `+=`: the sum, wrapped around when it does not fit
add_u64(a, b) == IF a + b > U64_MAX THEN a + b - U64_MAX - 1 ELSE a + b

\* u64 `+=` overflows: a panic in a build with overflow checks
Overflows(a, b) == a + b > U64_MAX

Panic == [kind |-> "Panic"]

\* an std::io::Error of read() or seek()
IoErr == [kind |-> "Io"]

\* impl From<StatParseError> for std::io::Error
io_error_from(e) == [kind |-> "InvalidData", inner |-> e]

\* str::parse::<u64>().ok(), on the numerals that occur in the model
parse_u64(s) ==
    CASE s = "0" -> Some(0)
      [] s = "1" -> Some(1)
      [] s = "2" -> Some(2)
      [] s = "3" -> Some(3)
      [] s = "4" -> Some(4)
      [] s = "5" -> Some(5)
      [] s = "100000" -> Some(100000)
      [] s = "18446744073709551615" -> Some(U64_MAX)
      [] OTHER -> NoVal

Text(t) == t.k \o t.sep \o t.v

\* str::split_once on a token
split_once(t, ch) == IF t.sep = ch THEN Some(<<t.k, t.v>>) ELSE NoVal

ReadErr(R) == [ok |-> FALSE, err |-> IoErr, off |-> R.off]

ParseErr(e, R) == [ok |-> FALSE, err |-> e, off |-> R.off]

ReadOk(v, R) == [ok |-> TRUE, val |-> v, off |-> R.off]

\* BufRead::read_line: the next line, or 0 bytes at the end of the file
AtEof(R) == R.off >= Len(R.lines)

NextLine(R) == IF AtEof(R) THEN <<>> ELSE R.lines[R.off + 1]

Advance(R) == IF AtEof(R) THEN R ELSE [R EXCEPT !.off = @ + 1]

\* the trait constants and field_handlers() of the three KeyValueStat types;
\* mode is what the handlers do with a value (set_* or add_*)
CpuStatCfg ==
    [split_char |-> NoVal, skip_lines |-> 0, skip_values |-> 0,
     allow_duplicate_keys |-> FALSE, allow_multiple_kv_per_line |-> FALSE,
     mode |-> "set",
     keys |-> {"usage_usec", "user_usec", "system_usec", "nr_periods", "nr_throttled",
               "throttled_usec", "nr_bursts", "burst_usec"}]

MemoryStatCfg ==
    [split_char |-> NoVal, skip_lines |-> 0, skip_values |-> 0,
     allow_duplicate_keys |-> FALSE, allow_multiple_kv_per_line |-> FALSE,
     mode |-> "set",
     keys |-> {"anon", "file", "kernel_stack", "slab", "sock", "shmem", "file_mapped"}]

IoStatCfg ==
    [split_char |-> Some("="), skip_lines |-> 0, skip_values |-> 1,
     allow_duplicate_keys |-> TRUE, allow_multiple_kv_per_line |-> TRUE,
     mode |-> "add",
     keys |-> {"rbytes", "wbytes", "rios", "wios"}]

\* parse_and_set without the check of seen_keys: a repeated key sets its field again
parse_and_set_unchecked(cfg, key, val, lineno, st) ==
    IF key \in cfg.keys
    THEN LET parsed == parse_u64(val) IN
         IF ~parsed.some
         THEN [ok |-> FALSE,
               err |-> io_error_from([variant |-> "InvalidKeyValue", key |-> key,
                                      value |-> val, line |-> lineno])]
         ELSE [ok |-> TRUE,
               stat |-> [st.stat EXCEPT ![key] = parsed.val],
               seen |-> st.seen \cup {key}]
    ELSE st

\* KeyValueStat::parse_and_set; st is [ok, stat, seen] or [ok, err]
parse_and_set(cfg, key, val, lineno, st) ==
    IF key \in cfg.keys
    THEN LET parsed == parse_u64(val) IN
         IF ~parsed.some
         THEN [ok |-> FALSE,
               err |-> io_error_from([variant |-> "InvalidKeyValue", key |-> key,
                                      value |-> val, line |-> lineno])]
         ELSE IF ~cfg.allow_duplicate_keys /\ key \in st.seen
         THEN [ok |-> FALSE,
               err |-> io_error_from([variant |-> "DuplicateField", field |-> key,
                                      line |-> lineno])]
         ELSE IF cfg.mode = "add" /\ Overflows(st.stat[key], parsed.val) /\ env.overflowChecks
         THEN [ok |-> FALSE, err |-> Panic]
         ELSE [ok |-> TRUE,
               stat |-> [st.stat EXCEPT ![key] = IF cfg.mode = "add"
                                                 THEN add_u64(@, parsed.val)
                                                 ELSE parsed.val],
               seen |-> IF cfg.allow_duplicate_keys THEN st.seen ELSE st.seen \cup {key}]
    ELSE st

\* KeyValueStat::parse_flat_pairs
RECURSIVE parse_flat_pairs(_, _, _, _)
parse_flat_pairs(cfg, parts, lineno, st) ==
    IF Len(parts) < 2
    THEN st
    ELSE LET s2 == parse_and_set(cfg, Text(parts[1]), Text(parts[2]), lineno, st) IN
         IF ~s2.ok \/ ~cfg.allow_multiple_kv_per_line
         THEN s2
         ELSE parse_flat_pairs(cfg, Tail(Tail(parts)), lineno, s2)

\* parse_split_pairs that gives up a line at its first token
parse_split_pairs_first(cfg, parts, split_char, lineno, st) ==
    IF parts = <<>>
    THEN st
    ELSE LET kv == split_once(parts[1], split_char) IN
         IF kv.some THEN parse_and_set(cfg, kv.val[1], kv.val[2], lineno, st) ELSE st

\* KeyValueStat::parse_split_pairs
RECURSIVE parse_split_pairs(_, _, _, _, _)
parse_split_pairs(cfg, parts, split_char, lineno, st) ==
    IF parts = <<>>
    THEN st
    ELSE LET kv == split_once(parts[1], split_char)
             s2 == IF kv.some THEN parse_and_set(cfg, kv.val[1], kv.val[2], lineno, st)
                   ELSE st
         IN IF ~s2.ok \/ ~cfg.allow_multiple_kv_per_line
            THEN s2
            ELSE parse_split_pairs(cfg, Tail(parts), split_char, lineno, s2)

\* Iterator::skip
Skip(s, n) == IF Len(s) <= n THEN <<>> ELSE SubSeq(s, n + 1, Len(s))

\* KeyValueStat::parse_line
parse_line(cfg, line, lineno, st) ==
    LET parts == Skip(line, cfg.skip_values) IN
    IF cfg.split_char.some
    THEN parse_split_pairs(cfg, parts, cfg.split_char.val, lineno, st)
    ELSE parse_flat_pairs(cfg, parts, lineno, st)

\* the while loop with a line counter that passes over blank lines
RECURSIVE KeyValueStat_loop_blank(_, _, _, _)
KeyValueStat_loop_blank(cfg, R, lineno, st) ==
    IF ~R.io
    THEN ReadErr(R)
    ELSE IF AtEof(R)
    THEN ReadOk(st.stat, R)
    ELSE LET no == IF NextLine(R) = <<>> THEN lineno ELSE lineno + 1
             s2 == parse_line(cfg, NextLine(R), no, st)
             R2 == Advance(R)
         IN IF ~s2.ok
            THEN ParseErr(s2.err, R2)
            ELSE IF ~cfg.allow_duplicate_keys /\ s2.seen = cfg.keys
            THEN ReadOk(s2.stat, R2)
            ELSE KeyValueStat_loop_blank(cfg, R2, no, s2)

\* the while loop without the early exit: every line is read
RECURSIVE KeyValueStat_loop_to_eof(_, _, _, _)
KeyValueStat_loop_to_eof(cfg, R, lineno, st) ==
    IF ~R.io
    THEN ReadErr(R)
    ELSE IF AtEof(R)
    THEN ReadOk(st.stat, R)
    ELSE LET s2 == parse_line(cfg, NextLine(R), lineno + 1, st)
             R2 == Advance(R)
         IN IF ~s2.ok
            THEN ParseErr(s2.err, R2)
            ELSE KeyValueStat_loop_to_eof(cfg, R2, lineno + 1, s2)

\* KeyValueStat::from_reader, the while loop; lineno counts the lines read
\* by the loop so far
RECURSIVE KeyValueStat_loop(_, _, _, _)
KeyValueStat_loop(cfg, R, lineno, st) ==
    IF ~R.io
    THEN ReadErr(R)
    ELSE IF AtEof(R)
    THEN ReadOk(st.stat, R)
    ELSE LET s2 == parse_line(cfg, NextLine(R), lineno + 1, st)
             R2 == Advance(R)
         IN IF ~s2.ok
            THEN ParseErr(s2.err, R2)
            ELSE IF ~cfg.allow_duplicate_keys /\ s2.seen = cfg.keys
            THEN ReadOk(s2.stat, R2)
            ELSE KeyValueStat_loop(cfg, R2, lineno + 1, s2)

\* KeyValueStat::from_reader
KeyValueStat_from_reader(cfg, R) ==
    IF ~R.io
    THEN ReadErr(R)
    ELSE KeyValueStat_loop(cfg,
                           [R EXCEPT !.off = IF @ + cfg.skip_lines > Len(R.lines)
                                             THEN Len(R.lines) ELSE @ + cfg.skip_lines],
                           0,
                           [ok |-> TRUE, stat |-> [k \in cfg.keys |-> 0], seen |-> {}])

CpuStat_from_reader(R) == KeyValueStat_from_reader(CpuStatCfg, R)

MemoryStat_from_reader(R) == KeyValueStat_from_reader(MemoryStatCfg, R)

\* IoStat with handlers that set their field instead of adding to it
IoStat_from_reader_set(R) == KeyValueStat_from_reader([IoStatCfg EXCEPT !.mode = "set"], R)

IoStat_from_reader(R) == KeyValueStat_from_reader(IoStatCfg, R)

DEFAULT_PERIOD == 100000


\* CpuLimit::from_reader that never reads the period
CpuLimit_from_reader_no_period(R) ==
    IF ~R.io
    THEN ReadErr(R)
    ELSE LET parts == NextLine(R)
             quota_str == IF Len(parts) >= 1 THEN Text(parts[1]) ELSE "max"
             quota == IF quota_str = "max" THEN NoVal ELSE parse_u64(quota_str)
         IN ReadOk([quota |-> quota, period |-> DEFAULT_PERIOD], Advance(R))

\* <CpuLimit as SingleLineStat>::from_reader
CpuLimit_from_reader(R) ==
    IF ~R.io
    THEN ReadErr(R)
    ELSE LET parts == NextLine(R)
             quota_str == IF Len(parts) >= 1 THEN Text(parts[1]) ELSE "max"
             p == IF Len(parts) >= 2 THEN parse_u64(Text(parts[2])) ELSE NoVal
             period == IF p.some THEN p.val ELSE DEFAULT_PERIOD
             quota == IF quota_str = "max" THEN NoVal ELSE parse_u64(quota_str)
         IN ReadOk([quota |-> quota, period |-> period], Advance(R))

\* str::trim of a line, as text: its tokens with single blanks between them
RECURSIVE Trim(_)
Trim(line) ==
    IF line = <<>> THEN ""
    ELSE IF Len(line) = 1 THEN Text(line[1])
    ELSE Text(line[1]) \o " " \o Trim(Tail(line))

\* MemoryUsage::from_reader that takes an unparseable line for the default 0
MemoryUsage_from_reader_lenient(R) ==
    IF ~R.io
    THEN ReadErr(R)
    ELSE LET line == NextLine(R)
             parsed == IF Len(line) = 1 THEN parse_u64(Text(line[1])) ELSE NoVal
         IN ReadOk([usage_bytes |-> IF parsed.some THEN parsed.val ELSE 0], Advance(R))

\* <MemoryUsage as SingleLineStat>::from_reader
MemoryUsage_from_reader(R) ==
    IF ~R.io
    THEN ReadErr(R)
    ELSE LET line == NextLine(R)
             parsed == IF Len(line) = 1 THEN parse_u64(Text(line[1])) ELSE NoVal
         IN IF parsed.some
            THEN ReadOk([usage_bytes |-> parsed.val], Advance(R))
            ELSE ParseErr(io_error_from([variant |-> "InvalidValue", value |-> Trim(line),
                                         line |-> 1]),
                          Advance(R))

\* MemoryLimit::from_reader that rejects a line that is neither max nor a u64
MemoryLimit_from_reader_strict(R) ==
    IF ~R.io
    THEN ReadErr(R)
    ELSE LET line == NextLine(R)
             parsed == IF Len(line) = 1 THEN parse_u64(Text(line[1])) ELSE NoVal
         IN IF Trim(line) = "max"
            THEN ReadOk([limit_bytes |-> NoVal], Advance(R))
            ELSE IF parsed.some
            THEN ReadOk([limit_bytes |-> parsed], Advance(R))
            ELSE ParseErr(io_error_from([variant |-> "InvalidValue", value |-> Trim(line),
                                         line |-> 1]),
                          Advance(R))

\* <MemoryLimit as SingleLineStat>::from_reader
MemoryLimit_from_reader(R) ==
    IF ~R.io
    THEN ReadErr(R)
    ELSE LET line == NextLine(R)
             limit_bytes == IF Len(line) = 1 /\ Text(line[1]) # "max"
                            THEN parse_u64(Text(line[1])) ELSE NoVal
         IN ReadOk([limit_bytes |-> limit_bytes], Advance(R))

NetFields == 16

IGNORED_INTERFACES == {"lo", "veth", "docker", "nerdctl"}

\* str::starts_with, on the interface names that occur in the model
starts_with(s, prefix) ==
    <<s, prefix>> \in {<<"lo", "lo">>, <<"local0", "lo">>, <<"veth1", "veth">>,
                       <<"docker0", "docker">>, <<"nerdctl0", "nerdctl">>}

\* net.rs parse_interface_line: the line is split at its first ':', which the
\* model's lines carry in their first token
parse_interface_line(line) ==
    IF line # <<>> /\ line[1].sep = ":"
    THEN Some([iface |-> line[1].k,
               fields |-> (IF line[1].v = "" THEN <<>> ELSE <<line[1].v>>)
                          \o [i \in 1..(Len(line) - 1) |-> Text(line[i + 1])]])
    ELSE NoVal

\* an interface is ignored only when its name is one of the four words
is_ignored_interface_exact(iface) == iface \in IGNORED_INTERFACES

is_ignored_interface(iface) == \E prefix \in IGNORED_INTERFACES : starts_with(iface, prefix)

\* net.rs stats_from_fields: None unless there are 16 fields; a field that is
\* no number counts as 0
stats_from_fields(fields) ==
    IF Len(fields) < NetFields
    THEN NoVal
    ELSE Some([i \in 1..NetFields |->
                  IF parse_u64(fields[i]).some THEN parse_u64(fields[i]).val ELSE 0])

NetworkStat_default == [i \in 1..NetFields |-> 0]

\* <NetworkStat as AddAssign>::add_assign
NetworkStat_add(a, b) == [i \in 1..NetFields |-> add_u64(a[i], b[i])]

\* one of the sixteen `+=` of add_assign panics
NetworkStat_add_panics(a, b) ==
    env.overflowChecks /\ \E i \in 1..NetFields : Overflows(a[i], b[i])

\* NetworkStat::from_reader, the while loop
RECURSIVE NetworkStat_loop(_, _)
NetworkStat_loop(R, stat) ==
    IF AtEof(R)
    THEN ReadOk(stat, R)
    ELSE LET l == parse_interface_line(NextLine(R))
             s == IF l.some /\ ~is_ignored_interface(l.val.iface)
                  THEN stats_from_fields(l.val.fields) ELSE NoVal
         IN IF s.some /\ NetworkStat_add_panics(stat, s.val)
            THEN ParseErr(Panic, Advance(R))
            ELSE NetworkStat_loop(Advance(R),
                                  IF s.some THEN NetworkStat_add(stat, s.val) ELSE stat)

\* NetworkStat::from_reader: two header lines, then one line per interface
NetworkStat_from_reader(R) ==
    IF ~R.io
    THEN ReadErr(R)
    ELSE NetworkStat_loop(Advance(Advance(R)), NetworkStat_default)

(***************************************************************************)
(* Collector::refresh_stats over file handles.  A handle is [path, off];   *)
(* fs is the world behind the handles: disk (path -> content), bad (paths  *)
(* whose read fails) and stuck (paths whose seek fails).  The seven        *)
(* Option/Vec fields of the Collector are keyed by the file they hold.     *)
(***************************************************************************)
SlotOrder == <<"cpu.stat", "cpu.max", "memory.stat", "memory.current", "memory.max", "io.stat">>

\* the reader refresh_stats passes for each slot
from_reader(slot, R) ==
    CASE slot = "cpu.stat" -> CpuStat_from_reader(R)
      [] slot = "cpu.max" -> CpuLimit_from_reader(R)
      [] slot = "memory.stat" -> MemoryStat_from_reader(R)
      [] slot = "memory.current" -> MemoryUsage_from_reader(R)
      [] slot = "memory.max" -> MemoryLimit_from_reader(R)
      [] slot = "io.stat" -> IoStat_from_reader(R)
      [] OTHER -> NetworkStat_from_reader(R)

\* the BufReader<File> behind a handle
Buf(h, fs) == [lines |-> fs.disk[h.path], off |-> h.off, io |-> h.path \notin fs.bad]

\* mutant: the handle is left where the reader stopped
read_and_stay(file, slot, fs) ==
    IF file.some
    THEN LET r == from_reader(slot, Buf(file.val, fs))
             at == Some([file.val EXCEPT !.off = r.off])
         IN IF ~r.ok
            THEN [ok |-> FALSE, err |-> r.err, file |-> at]
            ELSE [ok |-> TRUE, val |-> Some(r.val), file |-> at]
    ELSE [ok |-> TRUE, val |-> NoVal, file |-> NoVal]

\* utils::read_and_rewind; the reader passed is the one of the slot
read_and_rewind(file, slot, fs) ==
    LET after(r) ==
            LET at == Some([file.val EXCEPT !.off = r.off]) IN
            IF ~r.ok
            THEN [ok |-> FALSE, err |-> r.err, file |-> at]
            ELSE IF file.val.path \in fs.stuck
            THEN [ok |-> FALSE, err |-> IoErr, file |-> at]
            ELSE [ok |-> TRUE, val |-> Some(r.val), file |-> Some([file.val EXCEPT !.off = 0])]
    IN IF file.some
       THEN after(from_reader(slot, Buf(file.val, fs)))
       ELSE [ok |-> TRUE, val |-> NoVal, file |-> NoVal]

\* utils::read_all_and_rewind, the for loop from file i on (T = NetworkStat);
\* n counts the files handed to the reader
RECURSIVE read_all_loop(_, _, _, _)
read_all_loop(files, i, sum, fs) ==
    IF i > Len(files)
    THEN [ok |-> TRUE, val |-> Some(sum), files |-> files, n |-> Len(files)]
    ELSE LET after(r) ==
                 LET at == [files EXCEPT ![i].off = r.off] IN
                 IF ~r.ok
                 THEN [ok |-> FALSE, err |-> r.err, files |-> at, n |-> i]
                 ELSE IF files[i].path \in fs.stuck
                 THEN [ok |-> FALSE, err |-> IoErr, files |-> at, n |-> i]
                 ELSE IF NetworkStat_add_panics(sum, r.val)
                 THEN [ok |-> FALSE, err |-> Panic, files |-> [files EXCEPT ![i].off = 0],
                       n |-> i]
                 ELSE read_all_loop([files EXCEPT ![i].off = 0], i + 1,
                                    NetworkStat_add(sum, r.val), fs)
         IN after(NetworkStat_from_reader(Buf(files[i], fs)))

\* mutant: an empty list of files sums to Some(default)
read_all_or_default(files, fs) ==
    read_all_loop(files, 1, NetworkStat_default, fs)

\* utils::read_all_and_rewind
read_all_and_rewind(files, fs) ==
    IF files = <<>>
    THEN [ok |-> TRUE, val |-> NoVal, files |-> files, n |-> 0]
    ELSE read_all_loop(files, 1, NetworkStat_default, fs)

\* CgroupStats field fed by each slot
FieldOf ==
    [s \in Slots |->
        CASE s = "cpu.stat" -> "cpu_stat"
          [] s = "cpu.max" -> "cpu_limit"
          [] s = "memory.stat" -> "memory_stat"
          [] s = "memory.current" -> "memory_usage"
          [] s = "memory.max" -> "memory_limit"
          [] s = "io.stat" -> "io_stat"
          [] OTHER -> "network_stat"]

\* CgroupStats::new
CgroupStats_new(cpu_stat, cpu_limit, memory_stat, memory_usage, memory_limit, io_stat, network_stat) ==
    [cpu_stat |-> cpu_stat, cpu_limit |-> cpu_limit, memory_stat |-> memory_stat,
     memory_usage |-> memory_usage, memory_limit |-> memory_limit, io_stat |-> io_stat,
     network_stat |-> network_stat]

\* what a refresh_stats call leaves: its result, the collector, and the
\* paths handed to a reader, in order
Refreshed(res, c, reads) == [res |-> res, c |-> c, reads |-> reads]

\* mutant: memory.stat is read before cpu.stat and cpu.max
RECURSIVE refresh_from_swapped(_, _, _, _, _)
refresh_from_swapped(c, fs, i, got, reads) ==
    LET order == <<"memory.stat", "cpu.stat", "cpu.max", "memory.current", "memory.max",
                   "io.stat">> IN
    IF i <= Len(order)
    THEN LET slot == order[i]
             r == read_and_rewind(c.files[slot], slot, fs)
             c2 == [c EXCEPT !.files[slot] = r.file]
             reads2 == IF c.files[slot].some THEN Append(reads, slot) ELSE reads
         IN IF ~r.ok
            THEN Refreshed([ok |-> FALSE, err |-> r.err, slot |-> slot], c2, reads2)
            ELSE refresh_from_swapped(c2, fs, i + 1, [got EXCEPT ![slot] = r.val], reads2)
    ELSE LET r == read_all_and_rewind(c.network_stat_files, fs)
             c2 == [c EXCEPT !.network_stat_files = r.files]
             reads2 == reads \o [j \in 1..r.n |-> c.network_stat_files[j].path]
         IN IF ~r.ok
            THEN Refreshed([ok |-> FALSE, err |-> r.err, slot |-> "net/dev"], c2, reads2)
            ELSE Refreshed([ok |-> TRUE,
                            stats |-> CgroupStats_new(got["cpu.stat"], got["cpu.max"],
                                                      got["memory.stat"],
                                                      got["memory.current"],
                                                      got["memory.max"], got["io.stat"],
                                                      r.val)],
                           c2, reads2)

\* Collector::refresh_stats from the i-th read_and_rewind on: each `?`
\* returns the first error; got holds the values read so far
RECURSIVE refresh_from(_, _, _, _, _)
refresh_from(c, fs, i, got, reads) ==
    LET slot == SlotOrder[i]
        after(r) ==
            LET c2 == [c EXCEPT !.files[slot] = r.file]
                reads2 == IF c.files[slot].some THEN Append(reads, slot) ELSE reads
            IN IF ~r.ok
               THEN Refreshed([ok |-> FALSE, err |-> r.err, slot |-> slot], c2, reads2)
               ELSE refresh_from(c2, fs, i + 1, [got EXCEPT ![slot] = r.val], reads2)
        after_all(r) ==
            LET c2 == [c EXCEPT !.network_stat_files = r.files]
                reads2 == reads \o [j \in 1..r.n |-> c.network_stat_files[j].path]
            IN IF ~r.ok
               THEN Refreshed([ok |-> FALSE, err |-> r.err, slot |-> "net/dev"], c2, reads2)
               ELSE Refreshed([ok |-> TRUE,
                               stats |-> CgroupStats_new(got["cpu.stat"], got["cpu.max"],
                                                         got["memory.stat"],
                                                         got["memory.current"],
                                                         got["memory.max"], got["io.stat"],
                                                         r.val)],
                              c2, reads2)
    IN IF i <= Len(SlotOrder)
       THEN after(read_and_rewind(c.files[slot], slot, fs))
       ELSE after_all(read_all_and_rewind(c.network_stat_files, fs))

\* Collector::refresh_stats
Collector_refresh_stats(c, fs) ==
    refresh_from(c, fs, 1, [s \in Slots \ {"net/dev"} |-> NoVal], <<>>)

\* CollectorBuilder::set_*_file, set_network_stat_files and build: a handle
\* for every file that opens
Collector_build(present, net) ==
    [files |-> [s \in Slots \ {"net/dev"} |->
                   IF s \in present THEN Some([path |-> s, off |-> 0]) ELSE NoVal],
     network_stat_files |-> [j \in 1..Len(net) |-> [path |-> net[j], off |-> 0]]]

(***************************************************************************)
(* SpecCollector: one registered Collector, the files behind its handles   *)
(* as the kernel rewrites them, and the sampling passes that call          *)
(* refresh_stats on it until a call fails and the registry drops it.       *)
(***************************************************************************)
MaxWrites == 2

MaxCalls == 2

Line2(k, v) == <<T(k), T(v)>>

NetHeader == <<<<T("Inter-|"), T("Receive"), T("|"), T("Transmit")>>, <<T("face"), T("|bytes")>>>>

NetLine(iface, n) == <<KV(iface, ":", "")>> \o [i \in 1..NetFields |-> T(n)]

\* contents a file can have: what the kernel writes, and for the files whose
\* parser can fail, one content that makes it fail
Contents(path) ==
    CASE path = "cpu.stat" ->
           {<<Line2("usage_usec", "3"), Line2("user_usec", "1"), Line2("system_usec", "2")>>,
            <<Line2("usage_usec", "1"), Line2("user_usec", "1"), Line2("system_usec", "2"),
              Line2("nr_periods", "1"), Line2("nr_throttled", "0"),
              Line2("throttled_usec", "0"), Line2("nr_bursts", "0"),
              Line2("burst_usec", "0"), Line2("core_sched.force_idle_usec", "5")>>,
            <<Line2("usage_usec", "3"), Line2("usage_usec", "4"), Line2("user_usec", "1")>>}
      [] path = "cpu.max" ->
           {<<Line2("max", "100000")>>, <<Line2("5", "100000")>>, <<<<T("max")>>>>}
      [] path = "memory.stat" ->
           {<<Line2("anon", "1"), Line2("file", "2")>>,
            <<Line2("anon", "2"), Line2("file", "2"), Line2("pagetables", "1")>>,
            <<Line2("anon", "2"), Line2("file", "-1")>>}
      [] path = "memory.current" -> {<<<<T("3")>>>>, <<<<T("4")>>>>, <<>>}
      [] path = "memory.max" -> {<<<<T("max")>>>>, <<<<T("5")>>>>}
      [] path = "io.stat" ->
           {<<<<T("8:0"), KV("rbytes", "=", "1"), KV("wbytes", "=", "2"), KV("dbytes", "=", "0")>>,
              <<T("8:16"), KV("rbytes", "=", "3"), KV("rios", "=", "1")>>>>,
            <<>>,
            <<<<T("8:0"), KV("rbytes", "=", "x")>>>>}
      [] OTHER ->
           {NetHeader \o <<NetLine("lo", "5"), NetLine("eth0", "1")>>,
            NetHeader \o <<NetLine("eth0", "2"), NetLine("eth1", "1"), NetLine("veth1", "3")>>}

\* what each file holds when the collector is built
InitialContent(path) ==
    CASE path = "cpu.stat" ->
           <<Line2("usage_usec", "3"), Line2("user_usec", "1"), Line2("system_usec", "2")>>
      [] path = "cpu.max" -> <<Line2("5", "100000")>>
      [] path = "memory.stat" -> <<Line2("anon", "1"), Line2("file", "2")>>
      [] path = "memory.current" -> <<<<T("3")>>>>
      [] path = "memory.max" -> <<<<T("5")>>>>
      [] path = "io.stat" -> <<>>
      [] OTHER -> NetHeader \o <<NetLine("lo", "5"), NetLine("eth0", "1")>>

NetPaths == {"net/dev#1", "net/dev#2"}

Paths == (Slots \ {"net/dev"}) \cup NetPaths

\* the files a collector holds a handle of
Held(c) ==
    {s \in Slots \ {"net/dev"} : c.files[s].some}
        \cup {c.network_stat_files[j].path : j \in 1..Len(c.network_stat_files)}

\* collectors the builder can produce, with the paths whose seek fails
CollectorWorlds ==
    {[present |-> {"cpu.stat"}, net |-> <<>>, stuck |-> {}],
     [present |-> Slots \ {"net/dev"}, net |-> <<"net/dev#1", "net/dev#2">>, stuck |-> {}],
     [present |-> {"cpu.max", "memory.current", "memory.max"}, net |-> <<"net/dev#1">>,
      stuck |-> {}],
     [present |-> {}, net |-> <<>>, stuck |-> {}],
     [present |-> {"cpu.stat", "memory.stat", "io.stat"}, net |-> <<>>,
      stuck |-> {"memory.stat"}]}

Fs == [disk |-> col.disk, bad |-> col.bad, stuck |-> col.stuck]

\* one sampling pass over this collector: Monitor::collect_stats calls
\* refresh_stats and keeps the container only if the call returned Ok
CollectorRefresh ==
    /\ col # NoVal
    /\ col.registered
    /\ \E out \in {Collector_refresh_stats(col.c, Fs)} :
       col' = [col EXCEPT !.c = out.c,
                          !.res = Some(out.res),
                          !.reads = out.reads,
                          !.registered = out.res.ok,
                          !.calls = IF @ < MaxCalls THEN @ + 1 ELSE @,
                          !.prev = IF out.res.ok
                                   THEN Some([disk |-> col.disk, stats |-> out.res.stats])
                                   ELSE @]
    /\ UNCHANGED <<parse, run, env, alive, stream, containers, containerQ, metadataQ, statsQ, tick,
                   passes, statsW, persistCalls, db, metaW, metaDb, ev, en, reg, hist>>

\* the kernel changes what a file holds
FileWrite(path, content) ==
    /\ col # NoVal
    /\ col.registered
    /\ path \in Held(col.c)
    /\ col.writes < MaxWrites
    /\ content \in Contents(path) \ {col.disk[path]}
    /\ col' = [col EXCEPT !.disk[path] = content, !.writes = @ + 1]
    /\ UNCHANGED <<parse, run, env, alive, stream, containers, containerQ, metadataQ, statsQ, tick,
                   passes, statsW, persistCalls, db, metaW, metaDb, ev, en, reg, hist>>

\* the object behind a handle goes away (cgroup removed, process gone):
\* read() on the handle fails from now on
FileFail(path) ==
    /\ col # NoVal
    /\ col.registered
    /\ path \in Held(col.c)
    /\ col.bad = {}
    /\ col' = [col EXCEPT !.bad = {path}]
    /\ UNCHANGED <<parse, run, env, alive, stream, containers, containerQ, metadataQ, statsQ, tick,
                   passes, statsW, persistCalls, db, metaW, metaDb, ev, en, reg, hist>>

QuietEnv ==
    [overflowChecks |-> FALSE, rawIds |-> {}, pids |-> {}, mortal |-> {}, labels |-> {L1},
     execIds |-> {}, nsOk |-> {TRUE}, typeUrls |-> {}, getKinds |-> {"err"},
     cgroupFiles |-> {LineOk}, openable |-> {Slots}, sinkOk |-> {TRUE},
     log |-> {}, streamEnds |-> {}, listOk |-> {TRUE},
     maxEvents |-> 0, maxTicks |-> 0, namespaces |-> <<>>]

InitCollector ==
    /\ \E w \in CollectorWorlds :
           col = [c |-> Collector_build(w.present, w.net),
                  disk |-> [p \in Paths |-> InitialContent(p)],
                  bad |-> {}, stuck |-> w.stuck,
                  res |-> NoVal, reads |-> <<>>, registered |-> TRUE,
                  prev |-> NoVal, writes |-> 0, calls |-> 0]
    /\ parse = NoVal
    /\ run = [pc |-> "loop", res |-> "none"]
    /\ env = QuietEnv
    /\ alive = {}
    /\ stream = "none"
    /\ containers = << >>
    /\ containerQ = <<>>
    /\ metadataQ = <<>>
    /\ statsQ = <<>>
    /\ tick = [pc |-> "off", no |-> 0, out |-> <<>>]
    /\ passes = {}
    /\ statsW = [pc |-> "off", batch |-> NoVal, res |-> "none"]
    /\ persistCalls = <<>>
    /\ db = {}
    /\ metaW = [pc |-> "off", item |-> NoVal]
    /\ metaDb = << >>
    /\ ev = [pc |-> "off", n |-> 0, id |-> NoVal, pid |-> 0, labels |-> NoVal,
             got |-> NoVal, emitted |-> FALSE,
             result |-> "none", last |-> [kind |-> "none", id |-> <<>>, exec |-> ""]]
    /\ en = [pc |-> "off", ns |-> <<>>, cs |-> <<>>, tasks |-> << >>, meta |-> <<>>]
    /\ reg = [pc |-> "off", last |-> "none", file |-> NoVal]
    /\ hist = [dirty |-> FALSE, missed |-> {}]

NextCollector ==
    \/ CollectorRefresh
    \/ \E p \in Paths : \E content \in Contents(p) : FileWrite(p, content)
    \/ \E p \in Paths : FileFail(p)

SpecCollector == InitCollector /\ [][NextCollector]_vars

(***************************************************************************)
(* Properties of refresh_stats (SpecCollector).                            *)
(***************************************************************************)
\* what a reader returns on the file as it is now, read from its start
Fresh(slot, path) == from_reader(slot, [lines |-> col.disk[path], off |-> 0, io |-> TRUE])

\* the handles of the collector in the order refresh_stats takes them
HandleOrder(c) ==
    SelectSeq(SlotOrder, LAMBDA s : c.files[s].some)
        \o [j \in 1..Len(c.network_stat_files) |-> c.network_stat_files[j].path]

SlotOfPath(p) == IF p \in NetPaths THEN "net/dev" ELSE p

\* reading, parsing or rewinding this handle fails
Fails(p) == p \in col.bad \/ ~Fresh(SlotOfPath(p), p).ok \/ p \in col.stuck

\* a step that is a refresh_stats call
Refreshes == col # NoVal /\ col' # col /\ col'.disk = col.disk /\ col'.bad = col.bad

\* C18: a refresh_stats call returns Ok exactly if no handle fails; the
\* handles are taken in the order cpu.stat, cpu.max, memory.stat,
\* memory.current, memory.max, io.stat, network files; on a failure the call
\* stops at the first failing handle, returns its error and no snapshot.
C18_Step ==
    Refreshes =>
        LET order == HandleOrder(col.c)
            failing == {i \in 1..Len(order) : Fails(order[i])}
            res == col'.res.val
        IN /\ res.ok <=> failing = {}
           /\ res.ok => col'.reads = order /\ DOMAIN res = {"ok", "stats"}
           /\ ~res.ok =>
                  \E i \in failing :
                      /\ \A j \in failing : i <= j
                      /\ col'.reads = SubSeq(order, 1, i)
                      /\ res.slot = SlotOfPath(order[i])
                      /\ DOMAIN res = {"ok", "err", "slot"}

C18_FirstFailure == [][C18_Step]_vars

\* C18 witness: a call failed at memory.current after reading the three
\* slots before it, with io.stat and the network files held but not read.
C18_Witness ==
    /\ col # NoVal /\ col.res.some /\ ~col.res.val.ok
    /\ col.res.val.slot = "memory.current"
    /\ col.reads = <<"cpu.stat", "cpu.max", "memory.stat", "memory.current">>
    /\ col.c.files["io.stat"].some
    /\ col.c.network_stat_files # <<>>


\* the source of a snapshot field is not available: the slot holds no
\* handle; for the network field, no file was opened
Absent(s) ==
    IF s = "net/dev" THEN col.c.network_stat_files = <<>> ELSE ~col.c.files[s].some

\* the first token of what a file held
LimitToken(content) ==
    IF content # <<>> /\ content[1] # <<>> THEN Text(content[1][1]) ELSE ""

LimitSlots == {"cpu.max", "memory.max"}

\* a snapshot exists; col.prev holds it with the file contents it was read from
HasSnapshot == col # NoVal /\ col.prev.some

\* C19 as stated: a snapshot field is None iff its source is absent or, for
\* cpu_limit and memory_limit, the value read is "max".
C19_Original ==
    HasSnapshot =>
        \A s \in Slots :
            (col.prev.val.stats[FieldOf[s]] = NoVal)
                <=> (Absent(s) \/ (s \in LimitSlots /\ LimitToken(col.prev.val.disk[s]) = "max"))

\* C19 (amended): a snapshot field is None iff its source is absent; a
\* present limit slot always yields Some(limit), and the "max" sentinel makes
\* the value inside it (quota, limit_bytes) None, as does any other value
\* that is no u64; a collector holding only cpu.stat yields cpu_stat set to
\* what the file held and the six other fields None.
C19_NoneIffAbsent ==
    HasSnapshot =>
        LET stats == col.prev.val.stats
            disk == col.prev.val.disk
        IN /\ \A s \in Slots : (stats[FieldOf[s]] = NoVal) <=> Absent(s)
           /\ ~Absent("cpu.max") =>
                  (stats.cpu_limit.val.quota = NoVal
                       <=> ~parse_u64(LimitToken(disk["cpu.max"])).some)
           /\ ~Absent("memory.max") =>
                  (stats.memory_limit.val.limit_bytes = NoVal
                       <=> ~parse_u64(LimitToken(disk["memory.max"])).some)
           /\ Held(col.c) = {"cpu.stat"} =>
                  /\ stats.cpu_stat
                       = Some(CpuStat_from_reader([lines |-> disk["cpu.stat"], off |-> 0,
                                                   io |-> TRUE]).val)
                  /\ \A s \in Slots \ {"cpu.stat"} : stats[FieldOf[s]] = NoVal

\* C19 witness: a snapshot of a collector that holds cpu.max but no io.stat,
\* taken while cpu.max said "max": cpu_limit is Some, its quota is None.
C19_Witness ==
    /\ HasSnapshot
    /\ ~Absent("cpu.max") /\ LimitToken(col.prev.val.disk["cpu.max"]) = "max"
    /\ col.prev.val.stats.cpu_limit.some
    /\ col.prev.val.stats.cpu_limit.val.quota = NoVal
    /\ col.prev.val.stats.io_stat = NoVal

\* the NetworkStat summed over what the network files hold, read from their start
RECURSIVE FreshSum(_, _, _)
FreshSum(disk, files, i) ==
    IF i > Len(files)
    THEN NetworkStat_default
    ELSE NetworkStat_add(NetworkStat_from_reader([lines |-> disk[files[i].path], off |-> 0,
                                                  io |-> TRUE]).val,
                         FreshSum(disk, files, i + 1))

\* the snapshot that reading every held file from its start gives
FreshSnapshot(disk, c) ==
    LET f(s) == IF c.files[s].some
                THEN Some(from_reader(s, [lines |-> disk[s], off |-> 0, io |-> TRUE]).val)
                ELSE NoVal
    IN CgroupStats_new(f("cpu.stat"), f("cpu.max"), f("memory.stat"), f("memory.current"),
                       f("memory.max"), f("io.stat"),
                       IF c.network_stat_files = <<>> THEN NoVal
                       ELSE Some(FreshSum(disk, c.network_stat_files, 1)))

AllRewound(c) ==
    /\ \A s \in Slots \ {"net/dev"} : c.files[s].some => c.files[s].val.off = 0
    /\ \A j \in 1..Len(c.network_stat_files) : c.network_stat_files[j].off = 0

\* C20: after a successful refresh_stats every held handle is at offset 0.
C20_State == (col # NoVal /\ col.res.some /\ col.res.val.ok) => AllRewound(col.c)

\* C20: a successful call after an earlier one returns the earlier snapshot
\* if no held file changed in between, and in every case the snapshot that
\* the files' present contents, read from the start, give.
C20_Step ==
    (Refreshes /\ col'.res.val.ok) =>
        /\ col'.res.val.stats = FreshSnapshot(col.disk, col.c)
        /\ (col.prev.some /\ \A p \in Held(col.c) : col.prev.val.disk[p] = col.disk[p]) =>
               col'.res.val.stats = col.prev.val.stats

C20_Rewound == []C20_State /\ [][C20_Step]_vars

\* C20 witness: a second successful call, after cpu.stat was rewritten to a
\* content of which the parser consumes only a part (all eight keys are seen
\* before the last line).
C20_Witness ==
    /\ col # NoVal /\ col.calls = 2 /\ col.res.some /\ col.res.val.ok
    /\ col.writes >= 1
    /\ Len(col.disk["cpu.stat"]) = 9
    /\ col.c.files["cpu.stat"].some
    /\ col.res.val.stats.cpu_stat.val["usage_usec"] = 1
    /\ AllRewound(col.c)

(***************************************************************************)
(* The stat parsers on their own: one call of a from_reader on an input    *)
(* that is read from its start.  SpecKeyValue draws inputs for CpuStat,    *)
(* MemoryStat and IoStat, SpecSingleLine for CpuLimit, MemoryUsage and     *)
(* MemoryLimit, SpecNetwork for NetworkStat; the build is one with or      *)
(* without overflow checks.                                                *)
(***************************************************************************)
MaxLines == 3

\* all sequences over S of length at most n
Seqs(S, n) == UNION {[1..k -> S] : k \in 0..n}

\* the recognized keys of a key/value parser in the order the kernel prints them
KeyOrder(slot) ==
    CASE slot = "cpu.stat" ->
           <<"usage_usec", "user_usec", "system_usec", "nr_periods", "nr_throttled",
             "throttled_usec", "nr_bursts", "burst_usec">>
      [] slot = "memory.stat" ->
           <<"anon", "file", "kernel_stack", "slab", "sock", "shmem", "file_mapped">>
      [] OTHER -> <<"rbytes", "wbytes", "rios", "wios">>

CfgOf(slot) ==
    CASE slot = "cpu.stat" -> CpuStatCfg
      [] slot = "memory.stat" -> MemoryStatCfg
      [] OTHER -> IoStatCfg

\* lines of a "key value" file: the first two recognized keys with good and
\* bad values, an unknown key, a blank line, a key without value, and a line
\* with a second pair
FlatLines(slot) ==
    LET k1 == KeyOrder(slot)[1]
        k2 == KeyOrder(slot)[2]
    IN {Line2(k1, "1"), Line2(k1, "2"), Line2(k1, "x"), Line2(k2, "3"), Line2("foo", "1"),
        Line2("foo", "x"), <<>>, <<T(k1)>>, <<T("foo"), T("1"), T(k2), T("4")>>}

\* a file with every recognized key once
FullLines(slot) == [i \in 1..Len(KeyOrder(slot)) |-> Line2(KeyOrder(slot)[i], "1")]

\* lines of io.stat: a device token, then key=value pairs
IoLines ==
    {<<T("8:0"), KV("rbytes", "=", "1"), KV("wbytes", "=", "2")>>,
     <<T("8:16"), KV("rbytes", "=", "3"), KV("rios", "=", "1")>>,
     <<T("8:0"), KV("foo", "=", "1"), KV("rbytes", "=", "2"), KV("bar", "=", "x")>>,
     <<T("8:0"), KV("rbytes", "=", "x")>>,
     <<T("8:0"), T("malformedpair"), KV("wios", "=", "4")>>,
     <<T("8:0"), KV("rbytes", "=", "18446744073709551615")>>,
     <<T("8:0"), KV("wios", "=", "1"), KV("wios", "=", "2")>>,
     <<KV("rbytes", "=", "5")>>,
     <<>>}

KeyValueInputs(slot) ==
    IF slot = "io.stat"
    THEN Seqs(IoLines, MaxLines)
    ELSE Seqs(FlatLines(slot), MaxLines)
             \cup {FullLines(slot) \o tail : tail \in Seqs(FlatLines(slot), 1)}

\* first lines of cpu.max, memory.current and memory.max
SingleLines ==
    {<<>>, <<T("max")>>, <<T("5")>>, <<T("5"), T("100000")>>, <<T("max"), T("3")>>,
     <<T("x")>>, <<T("5"), T("x")>>, <<T("x"), T("3")>>,
     <<T("18446744073709551615")>>, <<T("18446744073709551616")>>,
     <<T("3"), T("4"), T("5")>>}

\* counters of a line of /proc/<pid>/net/dev: sixteen times n, but the second a
NetCounters(n, a) == [i \in 1..NetFields |-> IF i = 2 THEN T(a) ELSE T(n)]

NetLines ==
    {NetLine("eth0", "1"), NetLine("veth1", "3"), NetLine("docker0", "3"),
     NetLine("nerdctl0", "3"), NetLine("local0", "4"),
     <<KV("eth0", ":", "")>> \o NetCounters("1", "x"),
     <<KV("eth0", ":", "")>> \o NetCounters("18446744073709551615", "0"),
     <<KV("eth0", ":", "5")>> \o SubSeq(NetCounters("2", "2"), 1, NetFields - 1),
     NetLine("eth0", "1") \o <<T("5")>>,
     <<KV("eth0", ":", ""), T("1"), T("2")>>,
     <<T("eth0"), T("1")>> \o NetCounters("1", "1")}

NetworkInputs ==
    {<<>>, <<NetLine("eth0", "1")>>, <<NetHeader[1]>>}
        \cup {head \o body : head \in {NetHeader, <<NetLine("eth0", "1"), NetLine("eth1", "2")>>},
                             body \in Seqs(NetLines, MaxLines)}

ParseEnv(checks) == [QuietEnv EXCEPT !.overflowChecks = checks]

\* one call of the parser's from_reader on the whole input
ParseInput ==
    /\ parse # NoVal
    /\ ~parse.done
    /\ parse' = [parse EXCEPT !.done = TRUE,
                              !.out = from_reader(parse.parser,
                                                  [lines |-> parse.input, off |-> 0,
                                                   io |-> TRUE])]
    /\ UNCHANGED <<col, run, env, alive, stream, containers, containerQ, metadataQ, statsQ,
                   tick, passes, statsW, persistCalls, db, metaW, metaDb, ev, en, reg, hist>>

\* a parser about to be called on an input, in a process that does nothing else
InitParse(parser, input, checks) ==
    /\ parse = [parser |-> parser, input |-> input, done |-> FALSE, out |-> NoVal]
    /\ col = NoVal
    /\ run = [pc |-> "loop", res |-> "none"]
    /\ env = ParseEnv(checks)
    /\ alive = {}
    /\ stream = "none"
    /\ containers = << >>
    /\ containerQ = <<>>
    /\ metadataQ = <<>>
    /\ statsQ = <<>>
    /\ tick = [pc |-> "off", no |-> 0, out |-> <<>>]
    /\ passes = {}
    /\ statsW = [pc |-> "off", batch |-> NoVal, res |-> "none"]
    /\ persistCalls = <<>>
    /\ db = {}
    /\ metaW = [pc |-> "off", item |-> NoVal]
    /\ metaDb = << >>
    /\ ev = [pc |-> "off", n |-> 0, id |-> NoVal, pid |-> 0, labels |-> NoVal,
             got |-> NoVal, emitted |-> FALSE,
             result |-> "none", last |-> [kind |-> "none", id |-> <<>>, exec |-> ""]]
    /\ en = [pc |-> "off", ns |-> <<>>, cs |-> <<>>, tasks |-> << >>, meta |-> <<>>]
    /\ reg = [pc |-> "off", last |-> "none", file |-> NoVal]
    /\ hist = [dirty |-> FALSE, missed |-> {}]

InitKeyValue ==
    \E slot \in {"cpu.stat", "memory.stat", "io.stat"}, checks \in BOOLEAN :
        \E input \in KeyValueInputs(slot) : InitParse(slot, input, checks)

InitSingleLine ==
    \E slot \in {"cpu.max", "memory.current", "memory.max"}, checks \in BOOLEAN :
        \E input \in Seqs(SingleLines, MaxLines) : InitParse(slot, input, checks)

InitNetwork ==
    \E checks \in BOOLEAN : \E input \in NetworkInputs : InitParse("net/dev", input, checks)

SpecKeyValue == InitKeyValue /\ [][ParseInput]_vars

SpecSingleLine == InitSingleLine /\ [][ParseInput]_vars

SpecNetwork == InitNetwork /\ [][ParseInput]_vars

(***************************************************************************)
(* Claims about the key/value parsers.  A pair of a "key value" file is    *)
(* the first two tokens of a line, as the kernel writes cpu.stat and       *)
(* memory.stat; the helpers below read the input itself, line by line,     *)
(* without running the parser.                                             *)
(***************************************************************************)
Parsed == parse # NoVal /\ parse.done

FlatParser == parse # NoVal /\ parse.parser \in {"cpu.stat", "memory.stat"}

Keys == CfgOf(parse.parser).keys

\* line i of the input is a pair with a recognized key
RecognizedAt(i) == Len(parse.input[i]) >= 2 /\ Text(parse.input[i][1]) \in Keys

KeyAt(i) == Text(parse.input[i][1])

ValueAt(i) == Text(parse.input[i][2])

BadValueAt(i) == RecognizedAt(i) /\ ~parse_u64(ValueAt(i)).some

\* line j holds a recognized key that an earlier line holds too
Repeats(j) ==
    /\ RecognizedAt(j)
    /\ \E i \in 1..(j - 1) : RecognizedAt(i) /\ KeyAt(i) = KeyAt(j)

\* line j is the first line of the input that repeats a key
FirstRepeat(j) == Repeats(j) /\ \A i \in 1..(j - 1) : ~Repeats(i)

\* every recognized key occurs on a line before line j
AllSeenBefore(j) == Keys \subseteq {KeyAt(i) : i \in {i \in 1..(j - 1) : RecognizedAt(i)}}

FailsWith(e) == ~parse.out.ok /\ parse.out.err = io_error_from(e)

DuplicateFieldAt(j) ==
    FailsWith([variant |-> "DuplicateField", field |-> KeyAt(j), line |-> j])

\* C21 as stated: on every input of CpuStat and MemoryStat whose earlier
\* lines are well formed, the second occurrence of a recognized key makes
\* from_reader fail with DuplicateField naming the key and the line of that
\* second occurrence.
C21_Original ==
    (Parsed /\ FlatParser) =>
        \A j \in 1..Len(parse.input) :
            (FirstRepeat(j) /\ \A i \in 1..(j - 1) : ~BadValueAt(i)) => DuplicateFieldAt(j)

\* C21: for CpuStat and MemoryStat, the second occurrence of a recognized
\* key makes from_reader fail with an InvalidData error wrapping
\* DuplicateField, whose field is the key and whose line is the 1-based
\* number of the line of the second occurrence, when that occurrence has a
\* u64 value and is read before every recognized key has been seen (once
\* all keys are seen the parser stops reading).
C21_DuplicateField ==
    (Parsed /\ FlatParser) =>
        \A j \in 1..Len(parse.input) :
            (/\ FirstRepeat(j)
             /\ \A i \in 1..j : ~BadValueAt(i)
             /\ ~AllSeenBefore(j)) => DuplicateFieldAt(j)

\* a key repeated on the third line, after a line with an unknown key
C21_Witness ==
    /\ Parsed
    /\ FlatParser
    /\ Len(parse.input) = 3
    /\ FirstRepeat(3)
    /\ ~RecognizedAt(2)
    /\ DuplicateFieldAt(3)

KeyValueParser == parse # NoVal /\ parse.parser \in {"cpu.stat", "memory.stat", "io.stat"}

\* the positions <<line, token>> where a pair starts: in io.stat every
\* key=value token after the device token, in a "key value" file the first
\* token of a line that has a second one
PairPositions ==
    IF parse.parser = "io.stat"
    THEN {p \in UNION {{<<i, j>> : j \in 2..Len(parse.input[i])} : i \in 1..Len(parse.input)} :
              parse.input[p[1]][p[2]].sep = "="}
    ELSE {<<i, 1>> : i \in {i \in 1..Len(parse.input) : Len(parse.input[i]) >= 2}}

PairKey(p) ==
    IF parse.parser = "io.stat" THEN parse.input[p[1]][p[2]].k ELSE Text(parse.input[p[1]][1])

PairValue(p) ==
    IF parse.parser = "io.stat" THEN parse.input[p[1]][p[2]].v ELSE Text(parse.input[p[1]][2])

RecognizedPairs == {p \in PairPositions : PairKey(p) \in Keys}

NoDuplicates == \A p, q \in RecognizedPairs : PairKey(p) = PairKey(q) => p = q

AllNumeric == \A p \in RecognizedPairs : parse_u64(PairValue(p)).some

\* every field holds the value of its key's pair, and 0 without one
FieldsAsWritten ==
    [k \in Keys |->
        IF \E p \in RecognizedPairs : PairKey(p) = k
        THEN parse_u64(PairValue(CHOOSE p \in RecognizedPairs : PairKey(p) = k)).val
        ELSE 0]

\* C22: for CpuStat, MemoryStat and IoStat, on every input whose recognized
\* pairs are numeric and not repeated, from_reader succeeds: unknown keys and
\* malformed tokens are skipped wherever they stand, every recognized key
\* present sets its own field to its value, and the other fields stay 0.
C22_KnownKeysSet ==
    (Parsed /\ KeyValueParser /\ NoDuplicates /\ AllNumeric) =>
        (parse.out.ok /\ parse.out.val = FieldsAsWritten)

\* an io.stat line with a recognized key behind an unknown one, and a
\* memory.stat or cpu.stat file with a recognized key below an unknown one
C22_Witness ==
    /\ Parsed
    /\ KeyValueParser
    /\ NoDuplicates
    /\ AllNumeric
    /\ \E p \in RecognizedPairs :
           /\ \E q \in PairPositions \ RecognizedPairs :
                  \/ q[1] < p[1]
                  \/ q[1] = p[1] /\ q[2] < p[2]
           /\ parse.out.ok
           /\ parse.out.val[PairKey(p)] = parse_u64(PairValue(p)).val
           /\ parse.out.val[PairKey(p)] > 0
    /\ \E k \in Keys : parse.out.val[k] = 0

\* file order of pair positions
Before(q, p) == q[1] < p[1] \/ (q[1] = p[1] /\ q[2] < p[2])

\* the first recognized pair, in file order, whose value is not a u64
FirstBadPair(p) ==
    /\ p \in RecognizedPairs
    /\ ~parse_u64(PairValue(p)).some
    /\ \A q \in RecognizedPairs : Before(q, p) => parse_u64(PairValue(q)).some

\* the sum of the values of a set of numeric pairs
RECURSIVE SumOf(_)
SumOf(S) ==
    IF S = {}
    THEN 0
    ELSE LET p == CHOOSE p \in S : TRUE IN parse_u64(PairValue(p)).val + SumOf(S \ {p})

\* an accumulating handler has overflowed, in a build that checks, on a pair before p
PanicsBefore(p) ==
    /\ parse.parser = "io.stat"
    /\ env.overflowChecks
    /\ \E k \in Keys :
           SumOf({q \in RecognizedPairs : Before(q, p) /\ PairKey(q) = k}) > U64_MAX

\* from_reader has returned an error before it reads pair p
FailsBefore(p) ==
    \/ PanicsBefore(p)
    \/ FlatParser /\ \E i \in 1..(p[1] - 1) : Repeats(i)

InvalidKeyValueAt(p) ==
    FailsWith([variant |-> "InvalidKeyValue", key |-> PairKey(p), value |-> PairValue(p),
               line |-> p[1]])

\* C23 as stated: in every key/value parser, the first recognized key whose
\* value is not a u64 makes from_reader fail with InvalidKeyValue naming the
\* key, the value and the line of that pair.
C23_Original ==
    (Parsed /\ KeyValueParser) =>
        \A p \in PairPositions : (FirstBadPair(p) /\ ~FailsBefore(p)) => InvalidKeyValueAt(p)

\* C23: in every key/value parser, a recognized key whose value is not a
\* u64, read before every recognized key of a parser without duplicates has
\* been seen, makes from_reader fail with an InvalidData error wrapping
\* InvalidKeyValue whose key, value and line are those of the pair, the line
\* counting every line read, skipped ones included; a non-numeric value
\* under an unknown key is no error.
C23_InvalidKeyValue ==
    (Parsed /\ KeyValueParser) =>
        /\ \A p \in PairPositions :
               (/\ FirstBadPair(p)
                /\ ~FailsBefore(p)
                /\ ~(FlatParser /\ AllSeenBefore(p[1]))) => InvalidKeyValueAt(p)
        /\ (/\ AllNumeric
            /\ FlatParser => NoDuplicates
            /\ ~PanicsBefore(<<Len(parse.input) + 1, 1>>))
               => parse.out.ok

\* a bad value on the third line, below a line with an unknown key whose
\* value is no number either
C23_Witness ==
    /\ Parsed
    /\ KeyValueParser
    /\ \E p \in PairPositions :
           /\ FirstBadPair(p)
           /\ p[1] = 3
           /\ \E q \in PairPositions \ RecognizedPairs :
                  q[1] = 2 /\ ~parse_u64(PairValue(q)).some
           /\ \A q \in RecognizedPairs : q[1] # 2
           /\ InvalidKeyValueAt(p)

IoParser == parse # NoVal /\ parse.parser = "io.stat"

\* a reader at the start of the given lines
Reader(lines) == [lines |-> lines, off |-> 0, io |-> TRUE]

\* the input cut after line n: what IoStat::from_reader returns for each half
HeadStat(n) == IoStat_from_reader(Reader(SubSeq(parse.input, 1, n)))

TailStat(n) == IoStat_from_reader(Reader(SubSeq(parse.input, n + 1, Len(parse.input))))

\* the sum of the values of key k over all device lines
KeySum(k) == SumOf({p \in RecognizedPairs : PairKey(p) = k})

U64Samples == {0, 1, 2, 3, 4, 5, DEFAULT_PERIOD, U64_MAX}

\* <u64 as Display>::fmt
u64_to_string(n) ==
    CASE n = 0 -> "0"
      [] n = 1 -> "1"
      [] n = 2 -> "2"
      [] n = 3 -> "3"
      [] n = 4 -> "4"
      [] n = 5 -> "5"
      [] n = DEFAULT_PERIOD -> "100000"
      [] n = U64_MAX -> "18446744073709551615"

\* the line "{q} {p}\n"
cpu_max_line(q, p) == <<T(u64_to_string(q)), T(u64_to_string(p))>>

InitRoundTrip ==
    \E q \in U64Samples, p \in U64Samples, checks \in BOOLEAN :
        InitParse("cpu.max", <<cpu_max_line(q, p)>>, checks)

SpecRoundTrip == InitRoundTrip /\ [][ParseInput]_vars

\* C25: for every u64 q and p, the line "q p\n" parsed by
\* CpuLimit::from_reader yields quota = Some(q) and period = p.
C25_RoundTrip ==
    (Parsed /\ parse.parser = "cpu.max") =>
        \A q \in U64Samples, p \in U64Samples :
            parse.input = <<cpu_max_line(q, p)>> =>
                (parse.out.ok /\ parse.out.val = [quota |-> Some(q), period |-> p])

\* the largest quota with a period that is not the default
C25_Witness ==
    /\ Parsed
    /\ parse.input = <<cpu_max_line(U64_MAX, 3)>>
    /\ parse.out.ok
    /\ parse.out.val = [quota |-> Some(U64_MAX), period |-> 3]

\* the tokens of the first line of the input; none when the input is empty
FirstLine == IF parse.input = <<>> THEN <<>> ELSE parse.input[1]

\* the i-th token of the first line parses as a u64
IsU64(i) == Len(FirstLine) >= i /\ parse_u64(Text(FirstLine[i])).some

\* C26: CpuLimit::from_reader never fails on readable input; quota is None
\* when the first token is "max" or there is none, and Some(q) when the
\* first token is a u64 q; period is the second token when that is a u64
\* and 100000 when it is absent or unparseable; empty input gives
\* (None, 100000).
C26_NeverFails ==
    (Parsed /\ parse.parser = "cpu.max") =>
        /\ parse.out.ok
        /\ (Len(FirstLine) = 0 \/ Text(FirstLine[1]) = "max") => parse.out.val.quota = NoVal
        /\ IsU64(1) => parse.out.val.quota = Some(parse_u64(Text(FirstLine[1])).val)
        /\ IsU64(2) => parse.out.val.period = parse_u64(Text(FirstLine[2])).val
        /\ ~IsU64(2) => parse.out.val.period = 100000
        /\ parse.input = <<>> => parse.out.val = [quota |-> NoVal, period |-> 100000]

\* a quota with a period that is no number, followed by another line
C26_Witness ==
    /\ Parsed
    /\ parse.parser = "cpu.max"
    /\ Len(parse.input) = 2
    /\ IsU64(1)
    /\ Len(FirstLine) = 2
    /\ ~IsU64(2)
    /\ parse.out.ok
    /\ parse.out.val = [quota |-> Some(5), period |-> 100000]

\* the first line without the blanks around it
TrimmedFirstLine == Trim(FirstLine)

\* C27: MemoryUsage::from_reader succeeds iff the first line, trimmed, is a
\* u64, and then returns that value; otherwise, empty input included, it
\* fails with an InvalidData error wrapping InvalidValue whose value is the
\* trimmed first line and whose line is 1.
C27_Strict ==
    (Parsed /\ parse.parser = "memory.current") =>
        /\ parse.out.ok <=> parse_u64(TrimmedFirstLine).some
        /\ parse.out.ok => parse.out.val = [usage_bytes |-> parse_u64(TrimmedFirstLine).val]
        /\ ~parse.out.ok =>
               FailsWith([variant |-> "InvalidValue", value |-> TrimmedFirstLine, line |-> 1])

\* an empty file, and a first line of two numbers, both rejected
C27_Witness ==
    /\ Parsed
    /\ parse.parser = "memory.current"
    /\ \/ parse.input = <<>>
       \/ Len(FirstLine) = 2 /\ IsU64(1) /\ IsU64(2)
    /\ FailsWith([variant |-> "InvalidValue", value |-> TrimmedFirstLine, line |-> 1])

\* C28: MemoryLimit::from_reader never fails on readable input: a first
\* line "max" yields None, a u64 yields Some of it, and every other first
\* line, the empty input included, yields None; the result is a function of
\* the first line alone, so every parse of the same content agrees.
C28_Tolerant ==
    (Parsed /\ parse.parser = "memory.max") =>
        /\ parse.out.ok
        /\ TrimmedFirstLine = "max" => parse.out.val.limit_bytes = NoVal
        /\ parse_u64(TrimmedFirstLine).some =>
               parse.out.val.limit_bytes = Some(parse_u64(TrimmedFirstLine).val)
        /\ (TrimmedFirstLine # "max" /\ ~parse_u64(TrimmedFirstLine).some) =>
               parse.out.val.limit_bytes = NoVal
        /\ MemoryLimit_from_reader(Reader(<<FirstLine>>)).val = parse.out.val

\* a first line that is neither max nor a number
C28_Witness ==
    /\ Parsed
    /\ parse.parser = "memory.max"
    /\ Len(FirstLine) >= 1
    /\ TrimmedFirstLine # "max"
    /\ ~parse_u64(TrimmedFirstLine).some
    /\ parse.out.ok
    /\ parse.out.val = [limit_bytes |-> NoVal]

NetParser == parse # NoVal /\ parse.parser = "net/dev"

\* line i has the form iface:counters
HasColon(i) == parse.input[i] # <<>> /\ parse.input[i][1].sep = ":"

IfaceAt(i) == parse.input[i][1].k

\* the counters of line i: what follows the colon, split at blanks
CountersAt(i) ==
    (IF parse.input[i][1].v = "" THEN <<>> ELSE <<parse.input[i][1].v>>)
        \o [j \in 1..(Len(parse.input[i]) - 1) |-> Text(parse.input[i][j + 1])]

StartsWithIgnored(name) ==
    \E prefix \in {"lo", "veth", "docker", "nerdctl"} : starts_with(name, prefix)

\* the lines that count: below the two header lines, of the form
\* iface:counters, not an ignored interface, with at least 16 counters
Counted ==
    {i \in 3..Len(parse.input) :
        HasColon(i) /\ ~StartsWithIgnored(IfaceAt(i)) /\ Len(CountersAt(i)) >= 16}

\* counter f of line i, 0 when it is no number
CounterAt(i, f) ==
    IF parse_u64(CountersAt(i)[f]).some THEN parse_u64(CountersAt(i)[f]).val ELSE 0

RECURSIVE NetSum(_, _)
NetSum(S, f) ==
    IF S = {} THEN 0
    ELSE LET i == CHOOSE i \in S : TRUE IN CounterAt(i, f) + NetSum(S \ {i}, f)

PreFields == <<"mount_id", "parent_id", "major:minor", "root", "mount_point">>

PostFields == <<"fs_type", "source", "super_options">>

\* mountinfo::parser::parse_mount_info_line: the line is split at its first
\* " - ", five words are taken before it (the rest are optional fields) and
\* three after it
parse_mount_info_line(line) ==
    LET seps == {i \in 2..(Len(line) - 1) : line[i] = "-"} IN
    IF seps = {}
    THEN [ok |-> FALSE, err |-> [variant |-> "MissingSeparator", line |-> line]]
    ELSE LET s == CHOOSE i \in seps : \A j \in seps : i <= j
             pre == SubSeq(line, 1, s - 1)
             post == SubSeq(line, s + 1, Len(line))
         IN IF Len(pre) < Len(PreFields)
            THEN [ok |-> FALSE,
                  err |-> [variant |-> "MissingPreSeparatorField",
                           field |-> PreFields[Len(pre) + 1], line |-> line]]
            ELSE IF Len(post) < Len(PostFields)
            THEN [ok |-> FALSE,
                  err |-> [variant |-> "MissingPostSeparatorField",
                           field |-> PostFields[Len(post) + 1], line |-> line]]
            ELSE [ok |-> TRUE,
                  val |-> [mount_id |-> pre[1], parent_id |-> pre[2], major_minor |-> pre[3],
                           root |-> pre[4], mount_point |-> pre[5],
                           optional_fields |-> SubSeq(pre, 6, Len(pre)),
                           fs_type |-> post[1], source |-> post[2],
                           super_options |-> post[3]]]

\* the loop with the break taken out: the last cgroup2 line wins
RECURSIVE detect_loop_last(_, _, _)
detect_loop_last(R, origin, mount_point) ==
    IF ~R.io
    THEN [ok |-> FALSE, err |-> [variant |-> "ReadLine", path |-> origin]]
    ELSE IF AtEof(R)
    THEN IF mount_point.some
         THEN [ok |-> TRUE, val |-> mount_point.val]
         ELSE [ok |-> FALSE, err |-> [variant |-> "MissingCgroup2Mount", path |-> origin]]
    ELSE LET after(mount_info) ==
                 IF ~mount_info.ok
                 THEN [ok |-> FALSE,
                       err |-> [variant |-> "Parse", path |-> origin, source |-> mount_info.err]]
                 ELSE detect_loop_last(Advance(R), origin,
                                       IF mount_info.val.fs_type = "cgroup2"
                                       THEN Some(mount_info.val.mount_point)
                                       ELSE mount_point)
         IN after(parse_mount_info_line(NextLine(R)))

detect_last_cgroup2_mount_point_from_reader(reader, origin) ==
    detect_loop_last(reader, origin, NoVal)

\* the loop passing over lines that do not parse
RECURSIVE detect_loop_lenient(_, _)
detect_loop_lenient(R, origin) ==
    IF ~R.io
    THEN [ok |-> FALSE, err |-> [variant |-> "ReadLine", path |-> origin]]
    ELSE IF AtEof(R)
    THEN [ok |-> FALSE, err |-> [variant |-> "MissingCgroup2Mount", path |-> origin]]
    ELSE LET after(mount_info) ==
                 IF mount_info.ok /\ mount_info.val.fs_type = "cgroup2"
                 THEN [ok |-> TRUE, val |-> mount_info.val.mount_point]
                 ELSE detect_loop_lenient(Advance(R), origin)
         IN after(parse_mount_info_line(NextLine(R)))

\* detect_cgroup2_mount_point_from_reader, the while loop from the reader's
\* position on
RECURSIVE detect_loop(_, _)
detect_loop(R, origin) ==
    IF ~R.io
    THEN [ok |-> FALSE, err |-> [variant |-> "ReadLine", path |-> origin]]
    ELSE IF AtEof(R)
    THEN [ok |-> FALSE, err |-> [variant |-> "MissingCgroup2Mount", path |-> origin]]
    ELSE LET after(mount_info) ==
                 IF ~mount_info.ok
                 THEN [ok |-> FALSE,
                       err |-> [variant |-> "Parse", path |-> origin, source |-> mount_info.err]]
                 ELSE IF mount_info.val.fs_type = "cgroup2"
                 THEN [ok |-> TRUE, val |-> mount_info.val.mount_point]
                 ELSE detect_loop(Advance(R), origin)
         IN after(parse_mount_info_line(NextLine(R)))

\* mountinfo::detect::detect_cgroup2_mount_point_from_reader
detect_cgroup2_mount_point_from_reader(reader, origin) == detect_loop(reader, origin)

\* mountinfo::detect::detect_cgroup2_mount_point; a file is [path, opens, lines]
detect_cgroup2_mount_point(file) ==
    IF ~file.opens
    THEN [ok |-> FALSE, err |-> [variant |-> "FileOpen", path |-> file.path]]
    ELSE detect_cgroup2_mount_point_from_reader(Reader(file.lines), file.path)

Cgroup2Line(mount_point) ==
    <<"42", "35", "0:39", "/", mount_point, "rw,nosuid,nodev,noexec,relatime", "-", "cgroup2",
      "cgroup", "rw">>

MountLines ==
    {Cgroup2Line("/sys/fs/cgroup"), Cgroup2Line("/ignored"),
     <<"43", "35", "0:40", "/", "/run/cgroup2", "-", "cgroup2", "none", "rw">>,
     <<"25", "1", "0:24", "/", "/proc", "rw,relatime", "-", "proc", "proc", "rw">>,
     <<"36", "25", "0:32", "/", "/sys", "-", "sysfs", "sysfs", "rw">>,
     <<"30", "25", "0:27", "/", "/sys/fs/cgroup/cpu", "rw", "shared:9", "-", "cgroup", "cgroup",
       "rw,cpu">>,
     <<"50", "25", "0:50", "/", "/mnt", "rw", "-", "tmpfs", "cgroup2", "rw">>,
     <<"invalid", "mountinfo", "line">>,
     <<"42", "35", "0:22", "/", "-", "ext4", "/dev/sda1", "rw">>,
     <<"42", "35", "0:22", "/", "/mnt", "rw", "-", "cgroup2", "cgroup">>}

InitMountinfo ==
    \E lines \in Seqs(MountLines, MaxLines), opens \in BOOLEAN :
        InitParse("mountinfo",
                  [path |-> "/proc/self/mountinfo", opens |-> opens, lines |-> lines], FALSE)

\* one call of detect_cgroup2_mount_point
DetectMountPoint ==
    /\ parse # NoVal
    /\ parse.parser = "mountinfo"
    /\ ~parse.done
    /\ parse' = [parse EXCEPT !.done = TRUE, !.out = detect_cgroup2_mount_point(parse.input)]
    /\ UNCHANGED <<col, run, env, alive, stream, containers, containerQ, metadataQ, statsQ,
                   tick, passes, statsW, persistCalls, db, metaW, metaDb, ev, en, reg, hist>>

SpecMountinfo == InitMountinfo /\ [][DetectMountPoint]_vars

MountLine(i) == parse_mount_info_line(parse.input.lines[i])

IsCgroup2(i) == MountLine(i).ok /\ MountLine(i).val.fs_type = "cgroup2"

\* line i is the first cgroup2 line of a file whose lines above it are mount lines
FirstCgroup2(i) ==
    /\ IsCgroup2(i)
    /\ \A j \in 1..(i - 1) : MountLine(j).ok /\ ~IsCgroup2(j)

\* C30: detect_cgroup2_mount_point returns the mount_point of the first
\* line, in file order, whose fs_type is cgroup2; what follows that line,
\* further cgroup2 entries included, does not change the result.
C30_FirstCgroup2 ==
    (Parsed /\ parse.parser = "mountinfo" /\ parse.input.opens) =>
        \A i \in 1..Len(parse.input.lines) :
            FirstCgroup2(i) =>
                /\ parse.out = [ok |-> TRUE, val |-> MountLine(i).val.mount_point]
                /\ parse.out = detect_cgroup2_mount_point(
                                   [parse.input EXCEPT !.lines = SubSeq(@, 1, i)])

\* a cgroup2 line below another mount, with a second cgroup2 line of a
\* different mount point below it
C30_Witness ==
    /\ Parsed
    /\ parse.parser = "mountinfo"
    /\ parse.input.opens
    /\ Len(parse.input.lines) = 3
    /\ FirstCgroup2(2)
    /\ IsCgroup2(3)
    /\ MountLine(3).val.mount_point # MountLine(2).val.mount_point
    /\ parse.out = [ok |-> TRUE, val |-> MountLine(2).val.mount_point]

(***************************************************************************)
(* environment: the heuristics of detect_runtime_environment.  The text of *)
(* a line of /proc/self/cgroup is a sequence of pieces: the separator "/", *)
(* the line end "\n", and words that hold neither; a word carries its      *)
(* length in bytes and whether all its characters are ASCII hex digits.    *)
(***************************************************************************)
Piece(text, len, hex) == [text |-> text, len |-> len, hex |-> hex]

Slash == Piece("/", 1, FALSE)

Newline == Piece("\n", 1, FALSE)

\* str::contains on a word of the model
word_contains(text, pat) ==
    <<text, pat>> \in {<<"docker", "docker">>, <<"docker-1f.scope", "docker">>,
                       <<"kubepods.slice", "kubepods">>,
                       <<"containerd.service", "containerd">>,
                       <<"libpod-2a.scope", "libpod">>}

\* str::contains on a line: no pattern holds a "/" or a line end
contains(line, pat) == \E i \in 1..Len(line) : word_contains(line[i].text, pat)

\* str::split("/"): the runs of pieces between separators
RECURSIVE split(_, _)
split(line, part) ==
    IF line = <<>>
    THEN <<part>>
    ELSE IF Head(line) = Slash
    THEN <<part>> \o split(Tail(line), <<>>)
    ELSE split(Tail(line), Append(part, Head(line)))

\* str::len of a part
RECURSIVE len(_)
len(part) == IF part = <<>> THEN 0 ELSE Head(part).len + len(Tail(part))

\* a hex test that does not look at a line end closing the part
is_hex_string_before_newline(s) ==
    /\ \E i \in 1..Len(s) : s[i] # Newline
    /\ \A i \in 1..Len(s) : s[i].hex \/ (i = Len(s) /\ s[i] = Newline)

\* environment::checks::is_non_empty_hex_string
is_non_empty_hex_string(s) == s # <<>> /\ \A i \in 1..Len(s) : s[i].hex

\* environment::checks::matches_container_cgroup, the body of the loop for one line
line_matches(line) ==
    \/ contains(line, "docker")
    \/ contains(line, "kubepods")
    \/ contains(line, "containerd")
    \/ contains(line, "libpod")
    \/ LET parts == split(line, <<>>) IN
       \E i \in 1..Len(parts) : len(parts[i]) >= 32 /\ is_non_empty_hex_string(parts[i])

\* environment::checks::matches_container_cgroup, the while loop; a file is
\* [opens, readable, lines], every line with its line end if it has one
RECURSIVE cgroup_loop(_, _)
cgroup_loop(file, i) ==
    IF ~file.readable
    THEN [ok |-> FALSE, err |-> [variant |-> "ReadLine", path |-> "/proc/self/cgroup"]]
    ELSE IF i > Len(file.lines)
    THEN [ok |-> TRUE, val |-> FALSE]
    ELSE IF line_matches(file.lines[i])
    THEN [ok |-> TRUE, val |-> TRUE]
    ELSE cgroup_loop(file, i + 1)

\* environment::checks::matches_container_cgroup
matches_container_cgroup(file) ==
    IF ~file.opens
    THEN [ok |-> FALSE, err |-> [variant |-> "FileOpen", path |-> "/proc/self/cgroup"]]
    ELSE cgroup_loop(file, 1)

\* a word of fewer than 32 bytes that is not a hex string
Word(text) == Piece(text, 12, FALSE)

Hex64 == Piece("9f86d081884c7d659a2feaa0c55ad015a3bf4f1b2b0b822cd15d6c15b0f00a08", 64, TRUE)

Hex32 == Piece("0123456789abcdef0123456789abcdef", 32, TRUE)

HexUpper32 == Piece("0123456789ABCDEF0123456789ABCDEF", 32, TRUE)

Hex31 == Piece("0123456789abcdef0123456789abcde", 31, TRUE)

NotHex32 == Piece("0123456789abcdefg123456789abcdef", 32, FALSE)

\* lines of /proc/self/cgroup, without their line end
CgroupTexts ==
    {<<Word("0::"), Slash, Word("user.slice"), Slash, Word("session.scope")>>,
     <<Word("0::"), Slash>>,
     <<Word("12:pids:"), Slash, Word("docker"), Slash, Hex64>>,
     <<Word("0::"), Slash, Word("system.slice"), Slash, Word("docker-1f.scope")>>,
     <<Word("0::"), Slash, Word("kubepods.slice"), Slash, Word("pod1")>>,
     <<Word("0::"), Slash, Word("system.slice"), Slash, Word("containerd.service")>>,
     <<Word("0::"), Slash, Word("machine.slice"), Slash, Word("libpod-2a.scope")>>,
     <<Word("0::"), Slash, Word("system.slice"), Slash, Hex64>>,
     <<Word("0::"), Slash, Hex32, Slash, Word("app")>>,
     <<Hex32, Slash, Word("app")>>,
     <<Word("0::"), Slash, HexUpper32, Slash, Word("app")>>,
     <<Word("0::"), Slash, Hex31, Slash, Word("app")>>,
     <<Word("0::"), Slash, NotHex32, Slash, Word("app")>>,
     <<Word("0::"), Slash, Word("pod-"), Hex32>>}

\* the lines BufRead::read_line hands out for a file of these texts: every
\* line ends in "\n", the last one only if the file does
FileLines(texts, closed) ==
    [i \in 1..Len(texts) |->
        IF i < Len(texts) \/ closed THEN Append(texts[i], Newline) ELSE texts[i]]

CgroupFilesOf(n) ==
    {[opens |-> o, readable |-> r, lines |-> FileLines(texts, closed)] :
        o \in BOOLEAN, r \in BOOLEAN, texts \in Seqs(CgroupTexts, n), closed \in BOOLEAN}

\* one call of matches_container_cgroup
MatchCgroup ==
    /\ parse # NoVal
    /\ parse.parser = "cgroup heuristic"
    /\ ~parse.done
    /\ parse' = [parse EXCEPT !.done = TRUE, !.out = matches_container_cgroup(parse.input)]
    /\ UNCHANGED <<col, run, env, alive, stream, containers, containerQ, metadataQ, statsQ,
                   tick, passes, statsW, persistCalls, db, metaW, metaDb, ev, en, reg, hist>>

MaxCgroupLines == 2

InitHeuristic ==
    \E file \in CgroupFilesOf(MaxCgroupLines) : InitParse("cgroup heuristic", file, FALSE)

SpecHeuristic == InitHeuristic /\ [][MatchCgroup]_vars

\* the parts of line i of the file as the user sees them: split at "/",
\* the line end not being part of any component
Components(i) ==
    split(SelectSeq(parse.input.lines[i], LAMBDA p : p # Newline), <<>>)

HasMarker(i) ==
    \E pat \in {"docker", "kubepods", "containerd", "libpod"} : contains(parse.input.lines[i], pat)

\* component j of line i has at least 32 bytes, all of them hex digits
HexComponent(i, j) ==
    /\ len(Components(i)[j]) >= 32
    /\ \A k \in 1..Len(Components(i)[j]) : Components(i)[j][k].hex

HasHexComponent(i) == \E j \in 1..Len(Components(i)) : HexComponent(i, j)

Heuristic == parse # NoVal /\ parse.parser = "cgroup heuristic"

\* C32: for every readable /proc/self/cgroup content that contains one of
\* the substrings docker, kubepods, containerd, libpod, or that has a
\* '/'-separated component of at least 32 bytes that are all hex digits, in
\* first, middle or last position of its line, the heuristic reports a
\* container.
C32_Original ==
    (Parsed /\ Heuristic /\ parse.input.opens /\ parse.input.readable) =>
        ((\E i \in 1..Len(parse.input.lines) : HasMarker(i) \/ HasHexComponent(i))
            => parse.out = [ok |-> TRUE, val |-> TRUE])

\* what the code does: a hex component is found unless it is the last one
\* of a line that ends in a line end
C32_AsBuilt ==
    (Parsed /\ Heuristic /\ parse.input.opens /\ parse.input.readable) =>
        (parse.out = [ok |-> TRUE, val |-> TRUE]
            <=> \E i \in 1..Len(parse.input.lines) :
                    \/ HasMarker(i)
                    \/ \E j \in 1..Len(Components(i)) :
                           /\ HexComponent(i, j)
                           /\ (j < Len(Components(i))
                               \/ parse.input.lines[i][Len(parse.input.lines[i])] # Newline))

\* the id of a container as the last component of a line that ends in "\n"
C32_Witness ==
    /\ Parsed
    /\ Heuristic
    /\ parse.input.opens
    /\ parse.input.readable
    /\ Len(parse.input.lines) = 1
    /\ HasHexComponent(1)
    /\ HexComponent(1, Len(Components(1)))
    /\ parse.out = [ok |-> TRUE, val |-> FALSE]


(***************************************************************************)
(* environment::detect_runtime_environment and the choice of the rootfs in *)
(* run().  A path is the sequence of its components, "/" the empty one.    *)
(* The world of one start of the program: the value of ROOTFS_MOUNT_PATH,  *)
(* what try_exists says of <rootfs>/proc, the targets of the two pid       *)
(* namespace links (NoVal: read_link fails), /proc/self/cgroup, the marker *)
(* files, the variable `container`, and whether the rootfs exists.         *)
(***************************************************************************)
Ok(v) == [ok |-> TRUE, val |-> v]

Err(variant, path) == [ok |-> FALSE, err |-> [variant |-> variant, path |-> path]]

\* environment::checks::contains_proc_mount
contains_proc_mount(w, rootfs) ==
    IF w.proc = "Err" THEN Err("ExistenceCheck", rootfs \o <<"proc">>) ELSE Ok(w.proc = "Ok(true)")

\* environment::checks::is_pid_namespace_isolated
is_pid_namespace_isolated(w, rootfs) ==
    IF w.self_ns = NoVal
    THEN Err("ReadSymlink", <<"proc", "self", "ns", "pid">>)
    ELSE IF w.root_ns = NoVal
    THEN Err("ReadSymlink", rootfs \o <<"proc", "1", "ns", "pid">>)
    ELSE Ok(w.self_ns # w.root_ns)

\* environment::checks::has_container_indicators
has_container_indicators(w) == w.dockerenv \/ w.containerenv \/ w.container_var

\* detect_runtime_environment from the cgroup check on; calls are the checks made so far
detect_from_cgroup(w, calls) ==
    IF matches_container_cgroup(w.cgroup) = Ok(TRUE)
    THEN [environment |-> "Container", calls |-> Append(calls, "matches_container_cgroup")]
    ELSE IF has_container_indicators(w)
    THEN [environment |-> "Container",
          calls |-> calls \o <<"matches_container_cgroup", "has_container_indicators">>]
    ELSE [environment |-> "Host",
          calls |-> calls \o <<"matches_container_cgroup", "has_container_indicators">>]

\* mutant: a failing check ends the detection with Host
detect_runtime_environment_strict(w, rootfs) ==
    IF contains_proc_mount(w, rootfs) = Ok(TRUE)
    THEN IF is_pid_namespace_isolated(w, rootfs) = Ok(TRUE)
         THEN [environment |-> "Container",
               calls |-> <<"contains_proc_mount", "is_pid_namespace_isolated">>]
         ELSE IF ~is_pid_namespace_isolated(w, rootfs).ok
         THEN [environment |-> "Host",
               calls |-> <<"contains_proc_mount", "is_pid_namespace_isolated">>]
         ELSE detect_from_cgroup(w, <<"contains_proc_mount", "is_pid_namespace_isolated">>)
    ELSE IF ~contains_proc_mount(w, rootfs).ok
    THEN [environment |-> "Host", calls |-> <<"contains_proc_mount">>]
    ELSE detect_from_cgroup(w, <<"contains_proc_mount">>)

\* environment::detect_runtime_environment
detect_runtime_environment(w, rootfs) ==
    IF contains_proc_mount(w, rootfs) = Ok(TRUE)
    THEN IF is_pid_namespace_isolated(w, rootfs) = Ok(TRUE)
         THEN [environment |-> "Container",
               calls |-> <<"contains_proc_mount", "is_pid_namespace_isolated">>]
         ELSE detect_from_cgroup(w, <<"contains_proc_mount", "is_pid_namespace_isolated">>)
    ELSE detect_from_cgroup(w, <<"contains_proc_mount">>)

\* run(): the rootfs the rest of the start works with
choose_rootfs(w) ==
    LET rootfs == IF w.ROOTFS_MOUNT_PATH = NoVal THEN <<"rootfs">> ELSE w.ROOTFS_MOUNT_PATH.val
        after(runtime_env) ==
            IF runtime_env.environment = "Container" /\ ~w.rootfs_exists
            THEN [runtime_env |-> runtime_env, res |-> [ok |-> FALSE, err |-> "missing host root mount"]]
            ELSE [runtime_env |-> runtime_env,
                  res |-> Ok(IF runtime_env.environment = "Container" THEN rootfs ELSE <<>>)]
    IN after(detect_runtime_environment(w, rootfs))

\* /proc/self/cgroup of a login session, of a docker container, of a pod
\* named by its id only, and one that cannot be opened
EnvCgroups ==
    {[opens |-> TRUE, readable |-> TRUE,
      lines |-> <<<<Word("0::"), Slash, Word("user.slice"), Slash, Word("session.scope"), Newline>>>>],
     [opens |-> TRUE, readable |-> TRUE,
      lines |-> <<<<Word("0::"), Slash, Word("docker"), Slash, Hex64, Newline>>>>],
     [opens |-> TRUE, readable |-> FALSE, lines |-> <<>>],
     [opens |-> FALSE, readable |-> FALSE, lines |-> <<>>]}

PidNamespaces == {"pid:[4026531836]", "pid:[4026532201]"}

EnvWorlds ==
    {w \in [ROOTFS_MOUNT_PATH : {NoVal, Some(<<"host">>)},
            proc : {"Ok(true)", "Ok(false)", "Err"},
            self_ns : {NoVal, Some("pid:[4026532201]")},
            root_ns : {NoVal} \cup {Some(ns) : ns \in PidNamespaces},
            cgroup : EnvCgroups,
            dockerenv : BOOLEAN, containerenv : BOOLEAN, container_var : BOOLEAN,
            rootfs_exists : BOOLEAN] :
        /\ w.proc = "Ok(true)" => w.rootfs_exists
        /\ w.root_ns # NoVal => w.proc = "Ok(true)"}

\* run() up to the choice of the rootfs
DetectEnvironment ==
    /\ parse # NoVal
    /\ parse.parser = "environment"
    /\ ~parse.done
    /\ parse' = [parse EXCEPT !.done = TRUE, !.out = choose_rootfs(parse.input)]
    /\ UNCHANGED <<col, run, env, alive, stream, containers, containerQ, metadataQ, statsQ,
                   tick, passes, statsW, persistCalls, db, metaW, metaDb, ev, en, reg, hist>>

InitEnvironment == \E w \in EnvWorlds : InitParse("environment", w, FALSE)

SpecEnvironment == InitEnvironment /\ [][DetectEnvironment]_vars

Detected == parse # NoVal /\ parse.parser = "environment" /\ parse.done

\* the three checks as the claim states them, read off the world
NamespaceCheckPositive ==
    /\ parse.input.proc = "Ok(true)"
    /\ parse.input.self_ns # NoVal
    /\ parse.input.root_ns # NoVal
    /\ parse.input.self_ns # parse.input.root_ns

NamespaceCheckFails ==
    \/ parse.input.proc = "Err"
    \/ parse.input.proc = "Ok(true)" /\ (parse.input.self_ns = NoVal \/ parse.input.root_ns = NoVal)

CgroupCheckPositive ==
    /\ parse.input.cgroup.opens
    /\ parse.input.cgroup.readable
    /\ \E i \in 1..Len(parse.input.cgroup.lines) : line_matches(parse.input.cgroup.lines[i])

CgroupCheckFails == ~parse.input.cgroup.opens \/ ~parse.input.cgroup.readable

MarkerCheckPositive ==
    parse.input.dockerenv \/ parse.input.containerenv \/ parse.input.container_var

IsPrefix(s, t) == Len(s) <= Len(t) /\ \A i \in 1..Len(s) : s[i] = t[i]

\* C31: the checks are made in the order namespace, cgroup, markers, each
\* one only when none before it was positive; the result is Container
\* exactly when at least one check is positive, a failing namespace or
\* cgroup check counting as not positive; otherwise the result is Host and
\* run() goes on with "/" as the rootfs.
C31_Detection ==
    Detected =>
        /\ parse.out.runtime_env.environment = "Container"
               <=> (NamespaceCheckPositive \/ CgroupCheckPositive \/ MarkerCheckPositive)
        /\ parse.out.runtime_env.environment \in {"Container", "Host"}
        /\ IsPrefix(parse.out.runtime_env.calls,
                    <<"contains_proc_mount", "is_pid_namespace_isolated",
                      "matches_container_cgroup", "has_container_indicators">>)
           \/ IsPrefix(parse.out.runtime_env.calls,
                    <<"contains_proc_mount", "matches_container_cgroup", "has_container_indicators">>)
        /\ NamespaceCheckPositive
               <=> parse.out.runtime_env.calls = <<"contains_proc_mount", "is_pid_namespace_isolated">>
        /\ (~NamespaceCheckPositive /\ CgroupCheckPositive)
               <=> parse.out.runtime_env.calls[Len(parse.out.runtime_env.calls)] = "matches_container_cgroup"
        /\ parse.out.runtime_env.environment = "Host" => parse.out.res = Ok(<<>>)

\* both the namespace check and the cgroup check fail and a marker decides
C31_Witness ==
    /\ Detected
    /\ NamespaceCheckFails
    /\ CgroupCheckFails
    /\ parse.input.container_var
    /\ parse.out.runtime_env.environment = "Container"

\* both checks fail, no marker: Host, and "/" is the rootfs
C31_WitnessHost ==
    /\ Detected
    /\ NamespaceCheckFails
    /\ CgroupCheckFails
    /\ parse.out.runtime_env.environment = "Host"
    /\ parse.out.res = Ok(<<>>)


(***************************************************************************)
(* SpecContainerID: ContainerID::from_str on id strings of every kind, and *)
(* the Discoverer jobs fed with such strings by the runtime.               *)
(***************************************************************************)
\* ContainerID::as_str: the 64 bytes of the id, read as a str
ContainerID_as_str(id) == [i \in 1..IdLen |-> id[i]]

\* id strings: well-formed ones, wrong lengths, and single bytes just
\* outside '0'..'9' and 'a'..'z', upper case, blank and non-ASCII
IdStrings ==
    {IdA, IdB, BadUpper, <<>>, Rep(IdLen - 1, 97), Rep(IdLen + 1, 97), Rep(IdLen - 1, 65),
     [IdA EXCEPT ![IdLen] = 57], [IdA EXCEPT ![1] = 48], [IdB EXCEPT ![7] = 122],
     [IdA EXCEPT ![IdLen] = 47], [IdA EXCEPT ![IdLen] = 58], [IdA EXCEPT ![1] = 96],
     [IdA EXCEPT ![1] = 123], [IdA EXCEPT ![33] = 70], [IdA EXCEPT ![33] = 32],
     [IdA EXCEPT ![2] = 195, ![3] = 169]}

ContainerIDEnv ==
    [rawIds |-> {IdA, BadUpper, Rep(IdLen - 1, 97), [IdA EXCEPT ![IdLen] = 58]},
     pids |-> {11}, mortal |-> {}, labels |-> {L1},
     execIds |-> {""}, nsOk |-> {TRUE}, typeUrls |-> TypeUrls,
     getKinds |-> {"err", "container"},
     cgroupFiles |-> {LineOk}, openable |-> {Slots}, sinkOk |-> {TRUE},
     log |-> {}, streamEnds |-> {"closed", "failed"}, listOk |-> BOOLEAN,
     maxEvents |-> MaxEvents - 1, maxTicks |-> 0,
     namespaces |-> <<Namespace(Some(<<Container(IdB, L1, Running(11)),
                                       Container(Rep(IdLen + 1, 97), L1, Running(11))>>))>>]

\* one call of ContainerID::from_str, and as_str of the id it gives
ParseContainerID ==
    /\ parse # NoVal
    /\ parse.parser = "ContainerID"
    /\ ~parse.done
    /\ LET after(r) ==
               parse' = [parse EXCEPT !.done = TRUE,
                                      !.out = [id |-> r,
                                               as_str |-> IF r.some THEN Some(ContainerID_as_str(r.val))
                                                          ELSE NoVal]]
       IN after(ContainerID_from_str(parse.input))
    /\ UNCHANGED <<col, run, env, alive, stream, containers, containerQ, metadataQ, statsQ,
                   tick, passes, statsW, persistCalls, db, metaW, metaDb, ev, en, reg, hist>>

InitContainerID ==
    /\ parse \in {[parser |-> "ContainerID", input |-> s, done |-> FALSE, out |-> NoVal] : s \in IdStrings}
    /\ col = NoVal
    /\ run = [pc |-> "loop", res |-> "none"]
    /\ env = ContainerIDEnv
    /\ alive = env.pids \cup env.mortal
    /\ stream = "none"
    /\ containers = << >>
    /\ containerQ = <<>>
    /\ metadataQ = <<>>
    /\ statsQ = <<>>
    /\ tick = [pc |-> "tick", no |-> 0, out |-> <<>>]
    /\ passes = {}
    /\ statsW = [pc |-> "recv", batch |-> NoVal, res |-> "none"]
    /\ persistCalls = <<>>
    /\ db = {}
    /\ metaW = [pc |-> "recv", item |-> NoVal]
    /\ metaDb = << >>
    /\ ev = [pc |-> "subscribe", n |-> 0, id |-> NoVal, pid |-> 0, labels |-> NoVal,
             got |-> NoVal, emitted |-> FALSE,
             result |-> "none", last |-> [kind |-> "none", id |-> <<>>, exec |-> ""]]
    /\ en = [pc |-> "list_ns", ns |-> <<>>, cs |-> <<>>, tasks |-> << >>, meta |-> <<>>]
    /\ reg = [pc |-> "run", last |-> "none", file |-> NoVal]
    /\ hist = [dirty |-> FALSE, missed |-> {}]

SpecContainerID == InitContainerID /\ [][ParseContainerID \/ NextDiscovery]_vars

\* a string of exactly 64 bytes, each an ASCII digit or a lowercase ASCII letter
WellFormedId(s) ==
    /\ Len(s) = 64
    /\ \A i \in 1..Len(s) : s[i] \in (48..57) \cup (97..122)

\* the ids held by the Registry and by the queues
IdsInFlight ==
    DOMAIN containers
        \cup {containerQ[i].id : i \in 1..Len(containerQ)}
        \cup {metadataQ[i].id : i \in 1..Len(metadataQ)}

\* C33: ContainerID::from_str(s) succeeds exactly when s has 64 bytes that
\* are all ASCII digits or lowercase ASCII letters; as_str of the parsed id
\* is s; and every id in the Registry or in a queue is such a string.
C33_WellFormed ==
    /\ (parse # NoVal /\ parse.parser = "ContainerID" /\ parse.done) =>
           /\ parse.out.id.some <=> WellFormedId(parse.input)
           /\ parse.out.id.some => parse.out.as_str = Some(parse.input)
    /\ \A id \in IdsInFlight : WellFormedId(id)

\* a well-formed id was parsed and another one went through to the Registry
\* while the runtime also sent malformed ones
C33_Witness ==
    /\ parse # NoVal
    /\ parse.parser = "ContainerID"
    /\ parse.done
    /\ parse.out.id.some
    /\ parse.out.as_str = Some(parse.input)
    /\ DOMAIN containers # {}
    /\ containerQ # <<>>
    /\ metadataQ # <<>>
    /\ ev.n = env.maxEvents


(***************************************************************************)
(* container::MachineID.  A str is the sequence of the bytes of its UTF-8  *)
(* encoding; a byte 128..191 continues a character begun before it.        *)
(***************************************************************************)
\* str::is_char_boundary(i), i counted from 0
is_char_boundary(s, i) ==
    \/ i = 0
    \/ i = Len(s)
    \/ i < Len(s) /\ ~(s[i + 1] >= 128 /\ s[i + 1] <= 191)

\* char::to_digit(16); NoVal for a byte that is no hex digit
to_digit16(b) ==
    IF b >= 48 /\ b <= 57 THEN Some(b - 48)
    ELSE IF b >= 97 /\ b <= 102 THEN Some(b - 87)
    ELSE IF b >= 65 /\ b <= 70 THEN Some(b - 55)
    ELSE NoVal

\* the digits of u8::from_str_radix(_, 16), most significant first
RECURSIVE radix16_digits(_, _)
radix16_digits(digits, acc) ==
    IF digits = <<>>
    THEN IF acc > 255 THEN NoVal ELSE Some(acc)
    ELSE IF ~to_digit16(Head(digits)).some
    THEN NoVal
    ELSE radix16_digits(Tail(digits), acc * 16 + to_digit16(Head(digits)).val)

\* mutant: no sign is accepted and no upper-case digit
u8_from_lower_hex(src) ==
    IF src = <<>> \/ \E i \in 1..Len(src) : ~(src[i] \in (48..57) \cup (97..102))
    THEN NoVal
    ELSE radix16_digits(src, 0)

\* u8::from_str_radix(src, 16); NoVal for Err(ParseIntError).  A leading
\* '+' is a sign, a '-' is not one for an unsigned type
u8_from_str_radix(src) ==
    IF src = <<>>
    THEN NoVal
    ELSE IF Len(src) = 1 /\ src[1] \in {43, 45}
    THEN NoVal
    ELSE IF src[1] = 43
    THEN radix16_digits(Tail(src), 0)
    ELSE radix16_digits(src, 0)

\* <MachineID as FromStr>::from_str, the loop from byte offset i on; the
\* index expression &s[i..i + 2] panics off a character boundary
RECURSIVE MachineID_loop(_, _, _)
MachineID_loop(s, i, bytes) ==
    IF i >= Len(s)
    THEN [kind |-> "Ok", bytes |-> bytes]
    ELSE IF ~is_char_boundary(s, i) \/ ~is_char_boundary(s, i + 2)
    THEN [kind |-> "Panic", bytes |-> <<>>]
    ELSE IF ~u8_from_str_radix(SubSeq(s, i + 1, i + 2)).some
    THEN [kind |-> "Err", bytes |-> <<>>]
    ELSE MachineID_loop(s, i + 2, Append(bytes, u8_from_str_radix(SubSeq(s, i + 1, i + 2)).val))

\* <MachineID as FromStr>::from_str
MachineID_from_str(s) ==
    IF Len(s) # 32 THEN [kind |-> "Err", bytes |-> <<>>] ELSE MachineID_loop(s, 0, <<>>)

\* the byte of the lowercase hex digit d
LowerHex(d) == IF d < 10 THEN 48 + d ELSE 87 + d

\* write!(f, "{:02x}", b) for every byte
RECURSIVE MachineID_fmt(_)
MachineID_fmt(bytes) ==
    IF bytes = <<>>
    THEN <<>>
    ELSE <<LowerHex(Head(bytes) \div 16), LowerHex(Head(bytes) % 16)>> \o MachineID_fmt(Tail(bytes))

\* persistence::models: From<container::MachineID>, then From<MachineID> for String
MachineID_into_String(bytes) ==
    LET value == [i \in 1..Len(bytes) |-> bytes[i]]
        render[n \in 0..Len(value)] ==
            IF n = 0 THEN <<>>
            ELSE render[n - 1] \o <<LowerHex(value[n] \div 16), LowerHex(value[n] % 16)>>
    IN render[Len(value)]

\* "0123456789abcdef0123456789abcdef"
MachineIdText ==
    <<48, 49, 50, 51, 52, 53, 54, 55, 56, 57, 97, 98, 99, 100, 101, 102,
      48, 49, 50, 51, 52, 53, 54, 55, 56, 57, 97, 98, 99, 100, 101, 102>>

\* what /etc/machine-id may hold after trim(): the id, the id with one
\* byte replaced, with a two-byte character in it, or of another length
MachineIdInputs ==
    {MachineIdText, <<>>, SubSeq(MachineIdText, 1, 31), Append(MachineIdText, 48),
     MachineIdText \o MachineIdText, Rep(32, 102), Rep(32, 48)}
        \cup {[MachineIdText EXCEPT ![p] = b] :
                 p \in 1..32, b \in {65, 70, 71, 103, 122, 43, 45, 32, 47, 58, 96}}
        \cup {[MachineIdText EXCEPT ![p] = 195, ![p + 1] = 169] : p \in 1..31}

\* one call of MachineID::from_str, with both renderings of an accepted id
ParseMachineID ==
    /\ parse # NoVal
    /\ parse.parser = "MachineID"
    /\ ~parse.done
    /\ LET after(r) ==
               parse' = [parse EXCEPT !.done = TRUE,
                                      !.out = [kind |-> r.kind, bytes |-> r.bytes,
                                               display |-> MachineID_fmt(r.bytes),
                                               string |-> MachineID_into_String(r.bytes)]]
       IN after(MachineID_from_str(parse.input))
    /\ UNCHANGED <<col, run, env, alive, stream, containers, containerQ, metadataQ, statsQ,
                   tick, passes, statsW, persistCalls, db, metaW, metaDb, ev, en, reg, hist>>

InitMachineID == \E s \in MachineIdInputs : InitParse("MachineID", s, FALSE)

SpecMachineID == InitMachineID /\ [][ParseMachineID]_vars

MachineParsed == parse # NoVal /\ parse.parser = "MachineID" /\ parse.done

\* the characters of a str: its bytes that do not continue a character
CharCount(s) == Cardinality({i \in 1..Len(s) : ~(s[i] >= 128 /\ s[i] <= 191)})

LowercaseOrDigit(b) == b \in (48..57) \cup (97..122)

LowerHexDigit(b) == b \in (48..57) \cup (97..102)

\* C34: MachineID::from_str returns an error for every input that is not
\* exactly 32 characters long or holds a character other than a lowercase
\* letter or a digit; for every accepted input s both renderings of the 16
\* bytes are 32 lowercase hex characters and equal s.
C34_Original ==
    MachineParsed =>
        /\ (CharCount(parse.input) # 32 \/ \E i \in 1..Len(parse.input) : ~LowercaseOrDigit(parse.input[i]))
               => parse.out.kind = "Err"
        /\ parse.out.kind = "Ok" =>
               /\ Len(parse.out.bytes) = 16
               /\ Len(parse.out.display) = 32
               /\ \A i \in 1..32 : LowerHexDigit(parse.out.display[i])
               /\ parse.out.display = parse.input
               /\ parse.out.string = parse.input

\* what the code does: accepted are the 32-byte strings whose pairs are two
\* hex digits of either case or '+' and a hex digit; a pair taken across a
\* character panics; the rendering is lowercase, with '+' read as '0'
C34_AsBuilt ==
    MachineParsed =>
        /\ parse.out.kind = "Ok" <=>
               /\ Len(parse.input) = 32
               /\ \A k \in 0..15 :
                      /\ to_digit16(parse.input[2 * k + 2]).some
                      /\ to_digit16(parse.input[2 * k + 1]).some \/ parse.input[2 * k + 1] = 43
        /\ parse.out.kind = "Ok" =>
               /\ parse.out.string = parse.out.display
               /\ \A i \in 1..32 :
                      /\ LowerHexDigit(parse.out.display[i])
                      /\ LowerHexDigit(parse.input[i]) => parse.out.display[i] = parse.input[i]
        /\ (parse.out.kind = "Ok" /\ \A i \in 1..32 : LowerHexDigit(parse.input[i]))
               => parse.out.display = parse.input

\* an id with an upper-case digit is accepted and rendered in lower case
C34_Witness ==
    /\ MachineParsed
    /\ \E i \in 1..Len(parse.input) : parse.input[i] = 70
    /\ parse.out.kind = "Ok"
    /\ parse.out.display # parse.input


(***************************************************************************)
(* Early termination of the parsers that disallow duplicates               *)
(* (SpecKeyValue).                                                         *)
(***************************************************************************)
\* line j is the line on which the last not-yet-seen recognized key is read
CompleteAt(j) == RecognizedAt(j) /\ ~AllSeenBefore(j) /\ AllSeenBefore(j + 1)

\* what from_reader returns to its caller: the value or the error
Outcome(r) == IF r.ok THEN [ok |-> TRUE, val |-> r.val] ELSE [ok |-> FALSE, err |-> r.err]

\* the outcome on the first j lines of the input followed by the lines of tail
OutcomeWith(j, tail) ==
    Outcome(from_reader(parse.parser, Reader(SubSeq(parse.input, 1, j) \o tail)))

\* C35: for CpuStat and MemoryStat, when line j is the line on which the
\* last not-yet-seen recognized key is read, the outcome of from_reader is
\* the outcome on the first j lines, whatever follows line j.
C35_EarlyExit ==
    (Parsed /\ FlatParser) =>
        \A j \in 1..Len(parse.input) :
            CompleteAt(j) =>
                \A tail \in Seqs(FlatLines(parse.parser), 1) :
                    Outcome(parse.out) = OutcomeWith(j, tail)

\* every key was read once and the next line repeats a key with a value
\* that is not a number: the call returns the value all the same
C35_Witness ==
    /\ Parsed
    /\ FlatParser
    /\ CompleteAt(Len(parse.input) - 1)
    /\ BadValueAt(Len(parse.input))
    /\ parse.out.ok
    /\ \A k \in Keys : parse.out.val[k] = 1


(***************************************************************************)
(* Errors of detect_cgroup2_mount_point (SpecMountinfo).                   *)
(***************************************************************************)
\* the place of the first " - " of line i, 0 if it has none
FirstSeparator(i) ==
    LET line == parse.input.lines[i]
        places == {k \in 2..(Len(line) - 1) : line[k] = "-"}
    IN IF places = {} THEN 0 ELSE CHOOSE k \in places : \A l \in places : k <= l

LacksSeparator(i) == FirstSeparator(i) = 0

\* fewer than five fields before the separator or fewer than three after it
LacksField(i) ==
    /\ ~LacksSeparator(i)
    /\ FirstSeparator(i) - 1 < 5 \/ Len(parse.input.lines[i]) - FirstSeparator(i) < 3

Malformed(i) == LacksSeparator(i) \/ LacksField(i)

\* line i is a mount entry of type cgroup2
Cgroup2Entry(i) == ~Malformed(i) /\ parse.input.lines[i][FirstSeparator(i) + 1] = "cgroup2"

\* no line above line i is a cgroup2 entry or malformed
CleanAbove(i) == \A j \in 1..(i - 1) : ~Malformed(j) /\ ~Cgroup2Entry(j)

MountinfoRead == Parsed /\ parse.parser = "mountinfo" /\ parse.input.opens

\* C36: the lines of a mountinfo file that opens are taken in file order up
\* to the first cgroup2 entry.  The first line that lacks the separator or
\* a required field, no cgroup2 entry above it, makes the call fail with
\* Error::Parse carrying the error of that line; MissingCgroup2Mount is
\* returned exactly when every line parses and none is a cgroup2 entry; and
\* the result does not depend on the lines below the first cgroup2 entry.
C36_Errors ==
    MountinfoRead =>
        /\ \A i \in 1..Len(parse.input.lines) :
               (Malformed(i) /\ CleanAbove(i)) =>
                   /\ ~parse.out.ok
                   /\ parse.out.err.variant = "Parse"
                   /\ parse.out.err.source.line = parse.input.lines[i]
                   /\ parse.out.err.source.variant =
                          IF LacksSeparator(i) THEN "MissingSeparator"
                          ELSE IF FirstSeparator(i) - 1 < 5 THEN "MissingPreSeparatorField"
                          ELSE "MissingPostSeparatorField"
        /\ (~parse.out.ok /\ parse.out.err.variant = "MissingCgroup2Mount")
               <=> \A i \in 1..Len(parse.input.lines) : ~Malformed(i) /\ ~Cgroup2Entry(i)
        /\ \A i \in 1..Len(parse.input.lines) :
               (Cgroup2Entry(i) /\ CleanAbove(i)) =>
                   \A tail \in Seqs(MountLines, 1) :
                       parse.out = detect_cgroup2_mount_point(
                                       [parse.input EXCEPT !.lines = SubSeq(@, 1, i) \o tail])

\* a malformed line between a mount entry and a cgroup2 entry
C36_Witness ==
    /\ MountinfoRead
    /\ Len(parse.input.lines) = 3
    /\ ~Malformed(1)
    /\ ~Cgroup2Entry(1)
    /\ LacksField(2)
    /\ Cgroup2Entry(3)
    /\ ~parse.out.ok
    /\ parse.out.err.variant = "Parse"
    /\ parse.out.err.source.variant = "MissingPreSeparatorField"

\* a malformed line below the first cgroup2 entry is not looked at
C36_WitnessBelow ==
    /\ MountinfoRead
    /\ Len(parse.input.lines) = 2
    /\ Cgroup2Entry(1)
    /\ Malformed(2)
    /\ parse.out.ok


(***************************************************************************)
(* One entry per container in a batch (SpecRegistry).                      *)
(***************************************************************************)
\* the entries of `out` name pairwise different (timestamp, id) pairs
OncePerId(out) ==
    \A i, j \in 1..Len(out) :
        (out[i].container_id = out[j].container_id /\ out[i].timestamp = out[j].timestamp) => i = j

\* the entries of `out` carry the timestamp ts
StampedWith(out, ts) == \A i \in 1..Len(out) : out[i].timestamp = ts

\* C40: the batch of one sampling pass holds every container id at most
\* once, while it is gathered, while the tick loop holds it and in the
\* stats queue, registrations and removals running alongside the pass; all
\* its entries carry the timestamp of its tick, so no (timestamp, id) pair
\* occurs twice in it.
C40_OncePerBatch ==
    /\ \A p \in passes : OncePerId(p.out) /\ StampedWith(p.out, p.ts)
    /\ OncePerId(tick.out)
    /\ \A i \in 1..Len(statsQ) :
           /\ OncePerId(statsQ[i].entries)
           /\ StampedWith(statsQ[i].entries, statsQ[i].tick)
           /\ Cardinality(OutIds(statsQ[i].entries)) = Len(statsQ[i].entries)

\* a batch in the queue holds an id that was registered anew during the
\* pass, after the pass had sampled it
C40_Witness ==
    \E i \in 1..Len(statsQ) :
        \E m \in hist.missed :
            /\ m[2] = statsQ[i].tick
            /\ m[1] \in OutIds(statsQ[i].entries)
            /\ OncePerId(statsQ[i].entries)


(***************************************************************************)
(* SpecTeardown: one container whose task the runtime starts and later     *)
(* deletes.  The three Discoverer jobs are tasks of the multi-threaded     *)
(* runtime and run in parallel, so the body of add_container_task for one  *)
(* message is not one step: the process can exit, and its TaskDelete be    *)
(* handled, between the read of /proc/<pid>/cgroup and the call of         *)
(* register_container.                                                     *)
(***************************************************************************)
TeardownEnv ==
    [rawIds |-> {IdA}, pids |-> {12}, mortal |-> {12}, labels |-> {L1},
     execIds |-> {"", "exec1"}, nsOk |-> {TRUE},
     typeUrls |-> {"containerd.events.TaskStart", "containerd.events.TaskDelete"},
     getKinds |-> {"err"},
     cgroupFiles |-> {LineOk, LineV1}, openable |-> {Slots, {}}, sinkOk |-> {TRUE},
     log |-> {"registration", "events"}, streamEnds |-> {}, listOk |-> BOOLEAN,
     maxEvents |-> MaxEvents, maxTicks |-> 0,
     namespaces |-> <<Namespace(Some(<<Container(IdA, L1, Running(12))>>))>>]

\* add_container_task: rx.recv().await yields a message, /proc/<pid>/cgroup
\* is opened and its first line read and parsed
RegOpen(file) ==
    /\ reg.pc = "run"
    /\ containerQ # <<>>
    /\ containerQ' = Tail(containerQ)
    /\ reg' = IF AddRegisters(Head(containerQ), alive, file)
              THEN [reg EXCEPT !.pc = "build", !.file = Some(Head(containerQ))]
              ELSE [reg EXCEPT !.last = "skipped"]
    /\ UNCHANGED <<parse, col, run, env, alive, stream, containers, metadataQ, statsQ, tick,
                   passes, statsW, persistCalls, db, metaW, metaDb, ev, en, hist>>

\* add_container_task: the Collector is built from the files that open and
\* monitor.register_container is called
RegRegister(openable) ==
    /\ reg.pc = "build"
    /\ containers' = register_container(containers, reg.file.val.id,
                         MonitoredContainer_new(reg.file.val.id, <<reg.file.val.pid>>,
                                                CollectorBuild(reg.file.val.pid, openable)))
    /\ reg' = [reg EXCEPT !.pc = "run", !.last = "registered", !.file = NoVal]
    /\ hist' = [dirty |-> Dirty(hist, containers, containers'),
                missed |-> Missed(hist, reg.file.val.id)]
    /\ UNCHANGED <<parse, col, run, env, alive, stream, containerQ, metadataQ, statsQ, tick,
                   passes, statsW, persistCalls, db, metaW, metaDb, ev, en>>

\* msg is the TaskDelete of the task itself (empty exec_id)
IsTeardown(msg) ==
    /\ msg.event.some
    /\ decode_event(msg.event.val).ok
    /\ decode_event(msg.event.val).kind = "TaskDelete"
    /\ decode_event(msg.event.val).body.exec_id = ""

\* the runtime deletes a task only when its process is gone
EvMessageInOrder ==
    \E msg \in Msgs(env) :
        /\ IsTeardown(msg) => msg.event.val.value.pid \notin alive
        /\ EvMessage(msg)

NextTeardown ==
    \/ \E f \in env.cgroupFiles : RegOpen(f)
    \/ \E o \in env.openable : RegRegister(o)
    \/ EvSubscribeAny
    \/ EvMessageInOrder
    \/ EvGetContainerAny
    \/ EnListNamespacesAny
    \/ EnListContainers
    \/ EnGetTask
    \/ EnSendMeta
    \/ EnSendTaskAny
    \/ World

SpecTeardown == InitWith(TeardownEnv) /\ [][NextTeardown]_vars

\* the last event handled was the TaskDelete of the task of id
TeardownHandled(id) == ev.last = [kind |-> "TaskDelete", id |-> id, exec |-> ""]

\* nothing is queued or in the hands of a job, the enumeration has ended
\* and the stream has no further event
Drained ==
    /\ containerQ = <<>>
    /\ reg.pc = "run"
    /\ ev.pc = "recv"
    /\ ev.n = env.maxEvents
    /\ en.pc = "done"

\* C38: when a container-add for id and the TaskDelete with empty exec_id
\* for id have both been handled, the process of the task being gone before
\* the runtime sends the TaskDelete, and all queues are drained, the
\* Registry does not contain id.
C38_Original ==
    (Drained /\ TeardownHandled(IdA) /\ reg.last \in {"registered", "skipped"})
        => IdA \notin DOMAIN containers

\* the registration of id was under way when its TaskDelete was handled:
\* the Registry holds id with a Collector that holds no file
C38_Witness ==
    /\ Drained
    /\ TeardownHandled(IdA)
    /\ reg.last = "registered"
    /\ IdA \in DOMAIN containers
    /\ containers[IdA].collector.slots = {}
    /\ alive = {}


(***************************************************************************)
(* SpecLabels: one running container whose labels the runtime changes from *)
(* L1 to L2 after it has answered the listing of the enumeration; the      *)
(* events that follow carry L2, and so does the container fetched for a    *)
(* TaskStart.                                                              *)
(***************************************************************************)
L2 == [app |-> "v2"]

LabelsEnv ==
    [rawIds |-> {IdA}, pids |-> {11}, mortal |-> {}, labels |-> {L2},
     execIds |-> {""}, nsOk |-> {TRUE},
     typeUrls |-> {"containerd.events.ContainerUpdate", "containerd.events.TaskStart"},
     getKinds |-> {"container"},
     cgroupFiles |-> {LineOk}, openable |-> {Slots}, sinkOk |-> {TRUE},
     log |-> {"events"}, streamEnds |-> {}, listOk |-> BOOLEAN,
     maxEvents |-> MaxEvents, maxTicks |-> 0,
     namespaces |-> <<Namespace(Some(<<Container(IdA, L1, Running(11))>>))>>]

\* the runtime reports the new labels once the listing has been answered
EvMessageAfterListing ==
    /\ en.pc \notin {"list_ns", "list_containers"}
    /\ \E msg \in Msgs(env) : EvMessage(msg)

NextLabels ==
    \/ EvSubscribeAny
    \/ EvMessageAfterListing
    \/ EvGetContainerAny
    \/ EvStartSendTask
    \/ EnListNamespacesAny
    \/ EnListContainers
    \/ EnGetTask
    \/ EnSendMeta
    \/ EnSendTaskAny
    \/ MetaRecv
    \/ \E ok \in env.sinkOk : MetaPersistDone(ok)

SpecLabels == InitWith(LabelsEnv) /\ [][NextLabels]_vars

\* every metadata update sent has been delivered and no job has one to send
MetadataDrained ==
    /\ metadataQ = <<>>
    /\ metaW.pc = "recv"
    /\ en.pc = "done"
    /\ ev.pc = "recv"
    /\ ev.n = env.maxEvents

\* the job last handled an event that carried the labels the container has now
NewLabelsReported(id) ==
    /\ ev.last.kind \in {"ContainerUpdate", "TaskStart"}
    /\ ev.last.id = id

\* C39: when the runtime has reported new labels for a container by a
\* ContainerUpdate or TaskStart event and every update has been delivered,
\* the sink holds the new labels: the labels read by the enumeration have
\* not been delivered after them.
C39_Original ==
    (MetadataDrained /\ NewLabelsReported(IdA)) => metaDb[<<IdA, "app">>] = L2.app

\* the labels read by the enumeration were delivered last and are what the
\* sink holds, after the event with the new labels was handled
C39_Witness ==
    /\ MetadataDrained
    /\ NewLabelsReported(IdA)
    /\ <<IdA, "app">> \in DOMAIN metaDb
    /\ metaDb[<<IdA, "app">>] = L1.app

(***************************************************************************)
(* SpecFair: the pipeline under fair scheduling.  The tokio runtime polls  *)
(* every task that is ready (weak fairness per task), the timer of the     *)
(* tick loop fires, and every sink call and every RPC returns.  Nothing is *)
(* assumed about the runtime sending another event: the wait for the next  *)
(* message of the stream is not a step the schedule owes.  Two worlds fill *)
(* the queues: many ticks with a slow stats sink, and many events with     *)
(* slow workers.                                                           *)
(***************************************************************************)
\* many ticks, a quiet runtime, a slow stats sink
TickFairEnv ==
    [rawIds |-> {}, pids |-> {}, mortal |-> {}, labels |-> {},
     execIds |-> {}, nsOk |-> {TRUE}, typeUrls |-> {},
     getKinds |-> {"err"},
     cgroupFiles |-> {LineOk}, openable |-> {Slots}, sinkOk |-> BOOLEAN,
     log |-> {}, streamEnds |-> {"closed", "failed"}, listOk |-> BOOLEAN,
     maxEvents |-> 0, maxTicks |-> MaxTicksBP,
     namespaces |-> <<>>]

\* many ContainerUpdate events: only the metadata queue fills
UpdateFairEnv ==
    [rawIds |-> {IdA}, pids |-> {11}, mortal |-> {}, labels |-> {L1},
     execIds |-> {""}, nsOk |-> {TRUE},
     typeUrls |-> {"containerd.events.ContainerUpdate"},
     getKinds |-> {"err"},
     cgroupFiles |-> {LineOk}, openable |-> {Slots}, sinkOk |-> {TRUE},
     log |-> {}, streamEnds |-> {}, listOk |-> {TRUE},
     maxEvents |-> MaxEventsBP, maxTicks |-> 0,
     namespaces |-> <<>>]

\* many TaskStart events whose container fetch fails (no metadata is sent):
\* only the container queue fills, and the enumeration feeds both queues
StartFairEnv ==
    [rawIds |-> {IdA}, pids |-> {11}, mortal |-> {}, labels |-> {L1},
     execIds |-> {""}, nsOk |-> {TRUE},
     typeUrls |-> {"containerd.events.TaskStart"},
     getKinds |-> {"err"},
     cgroupFiles |-> {LineOk}, openable |-> {Slots}, sinkOk |-> {TRUE},
     log |-> {}, streamEnds |-> {}, listOk |-> {TRUE},
     maxEvents |-> MaxEventsBP, maxTicks |-> 0,
     namespaces |-> <<Namespace(Some(<<Container(IdA, L1, Running(11))>>))>>]

\* the steps of events_task that do not wait for the runtime to send an event
\* (no world of this specification lets a TaskStart fetch its container, so
\* the send of its labels is never reached)
EventsJobReady ==
    \/ EvSubscribeAny
    \/ EvStreamError
    \/ EvStreamClosed
    \/ EvUpdateSend
    \/ EvGetContainerAny
    \/ EvStartSendTask

NextFair ==
    \/ TickLoop
    \/ StatsWorker
    \/ MetaWorker
    \/ RegWorker
    \/ EventsJobReady
    \/ EvMessageAny
    \/ EnumJob
    \/ StreamEnds

Fairness ==
    /\ WF_vars(TickLoop)
    /\ WF_vars(StatsWorker)
    /\ WF_vars(MetaWorker)
    /\ WF_vars(RegWorker)
    /\ WF_vars(EventsJobReady)
    /\ WF_vars(EnumJob)

InitFair == InitWith(TickFairEnv) \/ InitWith(UpdateFairEnv) \/ InitWith(StartFairEnv)

SpecFair == InitFair /\ [][NextFair]_vars /\ Fairness

\* a task is suspended in a send on a full queue
WaitsOnStats == tick.pc = "send"

\* a send of events_task is suspended on a full queue
EventsWait == ev.pc \in {"cu_send", "ts_send_task"}

\* C37: under fair scheduling no task waits forever on a queue: a send that
\* is suspended on a full queue resumes; the enumeration runs to its end;
\* the container-adds and the metadata updates that were sent are consumed
\* (a queue that holds messages is drained); and the tick loop performs
\* every tick that the bound on ticks allows and is back at its timer.
C37_NoDeadlock ==
    /\ WaitsOnStats ~> ~WaitsOnStats
    /\ EventsWait ~> ~EventsWait
    /\ <>(en.pc = "done")
    /\ (containerQ # <<>>) ~> (containerQ = <<>>)
    /\ (metadataQ # <<>>) ~> (metadataQ = <<>>)
    /\ <>[](tick.no = env.maxTicks /\ tick.pc = "tick")

\* the tick loop is suspended on the full stats queue, events_task is
\* suspended on the full container queue, or on the full metadata queue
C37_Witness ==
    \/ WaitsOnStats /\ Len(statsQ) = StatsQueueCap
    \/ ev.pc = "ts_send_task" /\ Len(containerQ) = ContainerQueueCap
    \/ ev.pc = "cu_send" /\ Len(metadataQ) = MetadataQueueCap

=============================================================================
